---- MODULE Spec2Model ----
(***************************************************************************)
(* A model of OpenPrequal's load-balancing core: the in-memory backend     *)
(* registry (core/backend_registry.py), the Redis-backed registry          *)
(* (core/redis_backend_registry.py), the proxy forwarder                   *)
(* (core/proxy_handler.py) and the probe manager (core/probe_manager.py).  *)
(*                                                                         *)
(* Time is an integer clock `now` (time.time()), advanced by Tick.         *)
(* Every operation records what it was called with and what it returned    *)
(* in `ret`, so that properties can speak about return values.             *)
(***************************************************************************)
EXTENDS Integers, Sequences, FiniteSets, TLC

\* ------------------------------------------------------------------ bounds
MaxTime == 3
MaxMetric == 1
MaxFailures == 4
MaxRequests == 1
MaxForwards == 2
MaxProbes == 1
MaxConsumers == 3
MaxSamples == 2
MaxEvictions == 2
MaxMwRequests == 2
MaxHandled == 3
\* time.time() when the program starts, in ticks of the clock (ten seconds)
Epoch == 3
\* min_probe_interval = 20.0 seconds, in ticks of the clock
min_probe_interval == 2

\* --------------------------------------------------------------- constants
\* One tick of the clock `now` stands for 10 seconds.
\* heartbeat_timeout handed to the registry's constructor (0 stands for None)
HeartbeatTimeout == 1
\* consecutive_failure_threshold of ProxyHandler and ProbeManager
consecutive_failure_threshold == 3

URLS == {"http://a", "http://c"}
Ports == {8001}
MetricValues == 0..MaxMetric
LatencyValues == {0, 1}
RifValues == {0, 1}
None == "None"

\* ------------------------------------------------------------------- state
VARIABLES
    backends,        \* BackendRegistry._backends: url -> Backend
    last_heartbeat,  \* BackendRegistry._last_heartbeat: url -> timestamp
    now,             \* time.time()
    ret,             \* the last operation: [op, arg, pre, result]
    last_call,       \* observer: per URL, the most recent of register/unregister
    ph_failures,     \* ProxyHandler._consecutive_failures: url -> count
    fwd,             \* handle_proxy calls: request -> [pc, url]
    fwd_streak,      \* observer: per URL, failed forwards in a row since the
                     \* last upstream response with a status below 500
    attempts,        \* observer: per request, the URLs its handle_proxy call
                     \* has sent an upstream request to, in order
    fwd_batch,       \* observer: per URL, the forwards started since none
                     \* was in flight: the counter at that moment, their
                     \* number, whether one succeeded, whether one marked
    pm_failures,     \* ProbeManager._consecutive_failures: url -> count
    probing,         \* send_probe calls awaiting the backend: probe -> url
    probe_streak,    \* observer: per URL, failed probes in a row since the
                     \* last successful probe or register of that URL
    redis,           \* the Redis keyspace: key -> value
    redis_expires,   \* the keys that carry a TTL: key -> time of expiry
    tq_set,          \* ProbeTaskQueue._set
    tq_waiters,      \* ProbeTaskQueue._not_empty._waiters: the get_task calls
                     \* suspended in wait_for, in the order they suspended
    tq_woken,        \* the suspended get_task calls whose future notify() has
                     \* completed and that have not run again yet
    tq_order,        \* observer: the pending URLs in the order of their add_task
    pool_probes,     \* ProbePool.probes: backend_id -> entry
    pool_keys,       \* the keys of ProbePool.probes in the order of insertion
    pool_waiters,    \* ProbePool._lock._waiters: the add_probe calls suspended
                     \* at their second `async with self._lock`, in order, each
                     \* with its backend_id and temp_temperature
    healthy_backends_cache,  \* PrequalLoadBalancer._healthy_backends_cache: the
                     \* set holding the cached list (as its URLs), empty for None
    healthy_backends_fresh,  \* whether _healthy_backends_cache_time is no more
                     \* than _cache_timeout ago
    latency_cache,   \* PrequalLoadBalancer._latency_cache: url -> latency
    latency_fresh,   \* the URLs whose _latency_cache_time is less than
                     \* _cache_timeout ago
    rif_median_cache, \* _rif_median_cache and _rif_last_info:
                     \* url -> [med2, last_info]
    lb_call,         \* the get_next_backend call in progress
    lb_read,         \* observer: the URLs registered and healthy when the
                     \* balancer last read the registry
    probe_history,   \* PrequalLoadBalancer._probe_history
    last_probe_time, \* PrequalLoadBalancer._last_probe_time: url -> time
    created_tasks,   \* the add_task tasks that _schedule_probe_tasks created
                     \* and that have not run yet, as their URLs in order
    picks,           \* observer: the URLs the draw has picked since
                     \* _probe_history was last cleared -> whether the URL
                     \* has been healthy at every turn of the scheduler since
    sched_ran,       \* observer: _probe_scheduler_loop has had a turn since
                     \* the clock last ticked
    unprobed_for,    \* observer: per URL, the ticks of the clock since a probe
                     \* of it was last sent or it was last not healthy
    IN_FLIGHT,       \* MetricsManager.IN_FLIGHT: the value of the gauge
    mw_calls,        \* prometheus_middleware calls awaiting call_next:
                     \* request -> the set holding its rif_at_start
    rif_latencies,   \* MetricsManager._rif_latencies: key -> latencies
    active_rif_keys, \* MetricsManager._active_rif_keys
    rr_last_index,   \* RoundRobinLoadBalancer._last_index
    rr_prev,         \* observer: the sorted healthy backends and the URL
                     \* returned at the last round-robin get_next_backend
    pm_running,      \* ProbeManager._running
    run_state,       \* ProbeManager.run calls: worker -> "created" (not
                     \* started), "looping" or "returned"
    stopped          \* observer: ProbeManager.stop has been called

registry_vars == <<backends, last_heartbeat>>
proxy_vars == <<ph_failures, fwd, fwd_streak, attempts, fwd_batch>>
probe_vars == <<pm_failures, probing>>
redis_vars == <<redis, redis_expires>>
queue_vars == <<tq_set, tq_waiters, tq_woken, tq_order>>
pool_vars == <<pool_probes, pool_keys, pool_waiters>>
lb_vars == <<healthy_backends_cache, healthy_backends_fresh, latency_cache,
             latency_fresh, rif_median_cache, lb_call, lb_read>>
sched_vars == <<probe_history, last_probe_time, created_tasks, sched_ran,
               picks>>
metrics_vars == <<IN_FLIGHT, mw_calls, rif_latencies, active_rif_keys>>
rr_vars == <<rr_last_index, rr_prev>>
stop_vars == <<pm_running, run_state, stopped>>
vars == <<backends, last_heartbeat, now, ret, last_call,
          ph_failures, fwd, fwd_streak, attempts, fwd_batch,
          pm_failures, probing, probe_streak, redis, redis_expires,
          tq_set, tq_waiters, tq_woken, tq_order, pool_probes, pool_keys,
          pool_waiters,
          healthy_backends_cache, healthy_backends_fresh, latency_cache,
          latency_fresh, rif_median_cache, lb_call, lb_read,
          probe_history, last_probe_time, created_tasks, sched_ran, picks,
          unprobed_for, IN_FLIGHT, mw_calls, rif_latencies, active_rif_keys,
          rr_last_index, rr_prev, pm_running, run_state, stopped>>

\* ------------------------------------------------------------ dict helpers
Put(d, k, v) == [x \in (DOMAIN d) \cup {k} |-> IF x = k THEN v ELSE d[x]]
Pop(d, k) == [x \in (DOMAIN d) \ {k} |-> d[x]]
Get(d, k, default) == IF k \in DOMAIN d THEN d[k] ELSE default
EmptyDict == [x \in {} |-> None]
Range(seq) == {seq[i] : i \in 1..Len(seq)}
\* a Python bool as a Python value (so that it can stand beside None)
PyBool(b) == IF b THEN "True" ELSE "False"
\* the truth value of a Python value: None and False are false
Truthy(v) == v = "True"

\* getattr on a model object, as the set of values it yields: a field the
\* model does not declare yields none (the access raises AttributeError)
GetAttr(obj, f) == IF f \in DOMAIN obj THEN {obj[f]} ELSE {}

\* ----------------------------------------------------------------- Backend
\* The keyword arguments a caller constructs a Backend from (the /register body).
Payloads ==
    [url : URLS, port : Ports, health : BOOLEAN,
     in_flight_requests : MetricValues,
     rif_avg_latency : LatencyValues,
     overall_avg_latency : LatencyValues]

\* contracts.backend.Backend(**p): the declared fields only (pydantic ignores
\* undeclared keyword arguments); a declared field that is not given takes
\* its default.
Backend(p) ==
    [url |-> p.url,
     port |-> Get(p, "port", None),
     health |-> Get(p, "health", FALSE),
     in_flight_requests |-> Get(p, "in_flight_requests", 0),
     avg_latency |-> Get(p, "avg_latency", 0)]

\* ------------------------------------------------------ in-memory registry
\* the observer of the time a backend has gone without a probe being sent
\* while registered and healthy: it restarts whenever the backend is not
observe_health ==
    unprobed_for' = [u \in URLS |->
                       IF u \in DOMAIN backends' /\ backends'[u].health
                       THEN unprobed_for[u] ELSE 0]

\* observer: the record the registry holds for url before a call ({} if none)
Stored(url) == IF url \in DOMAIN backends THEN {backends[url]} ELSE {}

\* register: the record stored under backend.url
RegisterPreservingHealth(b) ==
    IF b.url \in DOMAIN backends
    THEN [b EXCEPT !.health = backends[b.url].health]
    ELSE b
RegisterPreservingMetrics(b) ==
    IF b.url \in DOMAIN backends
    THEN [b EXCEPT !.in_flight_requests = backends[b.url].in_flight_requests,
                   !.avg_latency = backends[b.url].avg_latency]
    ELSE b
register_record(b) == b

register(p) ==
    LET b == Backend(p) IN
    /\ backends' = Put(backends, b.url, register_record(b))
    /\ last_heartbeat' = Put(last_heartbeat, b.url, now)
    /\ ret' = [op |-> "register", arg |-> p, pre |-> Stored(b.url),
               result |-> [status |-> "registered", backend |-> backends'[b.url]]]
    /\ last_call' = [last_call EXCEPT ![b.url] = "register"]
    /\ probe_streak' = [probe_streak EXCEPT ![b.url] = 0]
    /\ UNCHANGED <<now, proxy_vars, probe_vars, redis_vars, queue_vars,
                   pool_vars, lb_vars, sched_vars, metrics_vars, rr_vars, stop_vars>>
    /\ observe_health

\* unregister: the backend table after the pop
UnregisterHeartbeatOnly(url) == backends
unregister_backends(url) == Pop(backends, url)

\* unregister: the heartbeat map after the pop, made under the same lock
UnregisterKeepsHeartbeat(url) == last_heartbeat
unregister_heartbeats(url) == Pop(last_heartbeat, url)

unregister(p) ==
    LET b == Backend(p) IN
    /\ backends' = unregister_backends(b.url)
    /\ last_heartbeat' = unregister_heartbeats(b.url)
    /\ ret' = [op |-> "unregister", arg |-> p, pre |-> Stored(b.url),
               result |-> [status |-> "unregistered", backend |-> b]]
    /\ last_call' = [last_call EXCEPT ![b.url] = "unregister"]
    /\ UNCHANGED <<now, proxy_vars, probe_vars, probe_streak, redis_vars, queue_vars,
                   pool_vars, lb_vars, sched_vars, metrics_vars, rr_vars, stop_vars>>
    /\ observe_health

\* timeout = self.heartbeat_timeout or 10 (seconds: one tick of the clock)
timeout == IF HeartbeatTimeout = 0 THEN 1 ELSE HeartbeatTimeout

\* list_backends: now - last > timeout, last defaulting to 0
HeartbeatExpiredSwapped(url) == Get(last_heartbeat, url, 0) - now > timeout
heartbeat_expired(url) == now - Get(last_heartbeat, url, 0) > timeout

\* the table list_backends leaves (and returns the values of)
ListedRestoresFresh ==
    [u \in DOMAIN backends |->
       [backends[u] EXCEPT !.health = ~heartbeat_expired(u)]]
listed_backends ==
    [u \in DOMAIN backends |->
       IF heartbeat_expired(u)
       THEN [backends[u] EXCEPT !.health = FALSE]
       ELSE backends[u]]

list_backends ==
    /\ backends' = listed_backends
    /\ ret' = [op |-> "list_backends", arg |-> None, pre |-> {},
               result |-> {backends'[u] : u \in DOMAIN backends'}]
    /\ UNCHANGED <<last_heartbeat, now, last_call, proxy_vars, probe_vars,
                   probe_streak, redis_vars, queue_vars, pool_vars, lb_vars,
                   sched_vars, metrics_vars, rr_vars, stop_vars>>
    /\ observe_health

\* the registry after mark_backend_unhealthy(backend_url)
MarkedUnhealthyAll(backend_url) ==
    IF backend_url \in DOMAIN backends
    THEN [u \in DOMAIN backends |-> [backends[u] EXCEPT !.health = FALSE]]
    ELSE backends
marked_unhealthy(backend_url) ==
    IF backend_url \in DOMAIN backends
    THEN [backends EXCEPT ![backend_url].health = FALSE]
    ELSE backends

mark_backend_unhealthy(backend_url) ==
    /\ backends' = marked_unhealthy(backend_url)
    /\ ret' = [op |-> "mark_backend_unhealthy", arg |-> backend_url,
               pre |-> Stored(backend_url),
               result |-> PyBool(backend_url \in DOMAIN backends)]
    /\ UNCHANGED <<last_heartbeat, now, last_call, proxy_vars, probe_vars,
                   probe_streak, redis_vars, queue_vars, pool_vars, lb_vars,
                   sched_vars, metrics_vars, rr_vars, stop_vars>>
    /\ observe_health

\* is_backend_healthy's return value
IsBackendHealthyFailOpen(backend_url) ==
    IF backend_url \notin DOMAIN backends THEN TRUE ELSE backends[backend_url].health
is_backend_healthy_value(backend_url) ==
    IF backend_url \notin DOMAIN backends THEN FALSE ELSE backends[backend_url].health

is_backend_healthy(backend_url) ==
    /\ ret' = [op |-> "is_backend_healthy", arg |-> backend_url,
               pre |-> Stored(backend_url),
               result |-> is_backend_healthy_value(backend_url)]
    /\ UNCHANGED <<backends, last_heartbeat, now, last_call, proxy_vars,
                   probe_vars, probe_streak, redis_vars, queue_vars,
                   pool_vars, lb_vars, sched_vars, unprobed_for,
                   metrics_vars, rr_vars, stop_vars>>

\* the clock; Redis drops the keys whose TTL has run out
TickUpTo(limit) ==
    /\ now < limit
    /\ now' = now + 1
    /\ LET live == {k \in DOMAIN redis :
                      k \in DOMAIN redis_expires => redis_expires[k] > now'}
       IN /\ redis' = [k \in live |-> redis[k]]
          /\ redis_expires' = [k \in live \cap DOMAIN redis_expires |->
                                  redis_expires[k]]
    /\ healthy_backends_fresh' = FALSE
    /\ latency_fresh' = {}
    /\ lb_call' = [lb_call EXCEPT !.now_fresh = FALSE]
    /\ ret' = [op |-> "tick", arg |-> None, pre |-> {}, result |-> None]
    /\ UNCHANGED <<backends, last_heartbeat, last_call, proxy_vars, probe_vars,
                   probe_streak, queue_vars, pool_vars, healthy_backends_cache,
                   latency_cache, rif_median_cache, lb_read, probe_history, picks,
                   last_probe_time, created_tasks, metrics_vars, rr_vars, stop_vars>>
    /\ sched_ran' = FALSE
    /\ unprobed_for' = [u \in URLS |->
                          IF u \in DOMAIN backends /\ backends[u].health
                          THEN unprobed_for[u] + 1 ELSE 0]

Tick == TickUpTo(MaxTime)

\* ----------------------------------------------------------- proxy handler
Requests == 1..MaxRequests
\* the handle_proxy calls that can be in progress at a time
Forwards == 1..MaxForwards
Idle == [pc |-> "idle", url |-> None]
\* the forwards to backend_url whose upstream call has not returned
in_flight(backend_url) ==
    {r \in Forwards : fwd[r].pc = "upstream" /\ fwd[r].url = backend_url}
NoBatch == [start |-> 0, size |-> 0, ok |-> FALSE, marked |-> FALSE]
\* what the upstream call can end in: a response with a status, or an exception
UpstreamStatuses == {200, 404, 500, 503}
\* resp.headers.items(): header names as the upstream spelled them, each with
\* its value; resp.content: the body
HeaderNames == {"Content-Encoding", "content-encoding", "Content-Type"}
HeaderValue(k) == IF k = "Content-Type" THEN "application/json" ELSE "gzip"
UpstreamHeaders == {[k \in S |-> HeaderValue(k)] : S \in SUBSET HeaderNames}
UpstreamContents == {"", "body"}
UpstreamOutcomes ==
    [kind : {"response"}, status : UpstreamStatuses,
     headers : UpstreamHeaders, content : UpstreamContents]
        \cup [kind : {"TimeoutException", "RequestError"}, status : {0},
              headers : {EmptyDict}, content : {""}]

\* str.lower() on a header name
lower(k) ==
    CASE k = "Content-Encoding" -> "content-encoding"
      [] k = "Content-Type" -> "content-type"
      [] OTHER -> k

\* the headers of the returned Response:
\* {k: v for k, v in resp.headers.items() if k.lower() != "content-encoding"}
ForwardedHeadersCaseSensitive(headers) ==
    [k \in {k \in DOMAIN headers : k # "content-encoding"} |-> headers[k]]
forwarded_headers(headers) ==
    [k \in {k \in DOMAIN headers : lower(k) # "content-encoding"} |-> headers[k]]

\* the circuit-breaker gate: if not is_healthy, reject
GateNeverRejects(is_healthy) == FALSE
gate_rejects(is_healthy) == ~is_healthy

\* handle_proxy up to the upstream request (or the early 503)
handle_proxy_call(r, backend_url) ==
    /\ fwd[r].pc = "idle"
    /\ LET is_healthy == is_backend_healthy_value(backend_url)
           no_backend == backend_url = ""
           rejected == ~no_backend /\ gate_rejects(is_healthy)
       IN
       /\ fwd' = IF no_backend \/ rejected
                 THEN fwd
                 ELSE [fwd EXCEPT ![r] = [pc |-> "upstream", url |-> backend_url]]
       /\ attempts' = [attempts EXCEPT ![r] =
                          IF no_backend \/ rejected THEN <<>> ELSE <<backend_url>>]
       /\ ret' = [op |-> "handle_proxy", arg |-> backend_url,
                  pre |-> Stored(backend_url),
                  result |->
                    [gate |-> IF no_backend THEN {} ELSE {is_healthy},
                     upstream |-> fwd'[r].pc = "upstream",
                     status_code |-> IF no_backend \/ rejected THEN 503 ELSE 0,
                     content |->
                       IF no_backend THEN "No backend servers registered."
                       ELSE IF rejected THEN "Backend temporarily unavailable."
                       ELSE None]]
    /\ UNCHANGED <<registry_vars, now, last_call, ph_failures, fwd_streak,
                   probe_vars, probe_streak, redis_vars, queue_vars,
                   pool_vars, lb_vars, sched_vars, unprobed_for,
                   metrics_vars, rr_vars, stop_vars>>

handle_proxy(r, backend_url) ==
    /\ handle_proxy_call(r, backend_url)
    /\ UNCHANGED fwd_batch

\* handle_proxy with the observer of the forwards in flight together
handle_proxy_observed(r, backend_url) ==
    /\ handle_proxy_call(r, backend_url)
    /\ fwd_batch' =
          IF fwd'[r].pc # "upstream" THEN fwd_batch
          ELSE [fwd_batch EXCEPT ![backend_url] =
                  IF in_flight(backend_url) = {}
                  THEN [start |-> Get(ph_failures, backend_url, 0),
                        size |-> 1, ok |-> FALSE, marked |-> FALSE]
                  ELSE IF @.ok THEN @
                  ELSE [@ EXCEPT !.size = @ + 1]]

\* _handle_proxy_failure: failure_count >= threshold
ProxyThresholdExceededOnly(failure_count) ==
    failure_count > consecutive_failure_threshold
ProxyThresholdAtOnly(failure_count) ==
    failure_count = consecutive_failure_threshold
proxy_threshold_reached(failure_count) ==
    failure_count >= consecutive_failure_threshold

\* self._consecutive_failures.get(backend_url, 0) + 1, read and written
\* back without a suspension in between
ProxyFailureCountLosingUpdates(backend_url) ==
    IF Cardinality(in_flight(backend_url)) > 1
    THEN Get(ph_failures, backend_url, 0)
    ELSE Get(ph_failures, backend_url, 0) + 1
proxy_failure_count(backend_url) ==
    Get(ph_failures, backend_url, 0) + 1

handle_proxy_failure(backend_url) ==
    LET failure_count == proxy_failure_count(backend_url) IN
    /\ ph_failures' = Put(ph_failures, backend_url, failure_count)
    /\ backends' = IF proxy_threshold_reached(failure_count)
                   THEN marked_unhealthy(backend_url)
                   ELSE backends

\* whether the upstream call's outcome is handled as a failure:
\* an exception, or resp.status_code >= 500
ProxyFailedAbove500(outcome) ==
    outcome.kind # "response" \/ outcome.status > 500
proxy_failed(outcome) ==
    outcome.kind # "response" \/ outcome.status >= 500

\* the status of the response handle_proxy returns for an upstream outcome
ProxyStatusCodeSwapped(outcome) ==
    IF outcome.kind = "TimeoutException" THEN 502
    ELSE IF outcome.kind = "RequestError" THEN 504
    ELSE outcome.status
proxy_status_code(outcome) ==
    IF outcome.kind = "TimeoutException" THEN 504
    ELSE IF outcome.kind = "RequestError" THEN 502
    ELSE outcome.status

\* handle_proxy from the upstream call's outcome to the response
proxy_response_call(r, outcome) ==
    /\ fwd[r].pc = "upstream"
    /\ LET backend_url == fwd[r].url
           failed == proxy_failed(outcome)
           failure_count == proxy_failure_count(backend_url)
           marks == failed /\ proxy_threshold_reached(failure_count)
       IN /\ IF failed
             THEN /\ Get(ph_failures, backend_url, 0) < MaxFailures
                  /\ handle_proxy_failure(backend_url)
             ELSE /\ ph_failures' = Pop(ph_failures, backend_url)
                  /\ backends' = backends
          /\ fwd_streak' = [fwd_streak EXCEPT ![backend_url] =
                               IF outcome.kind = "response" /\ outcome.status < 500
                               THEN 0 ELSE @ + 1]
          /\ ret' = [op |-> "proxy_response", arg |-> backend_url,
                     pre |-> Stored(backend_url),
                     result |->
                       [status_code |-> proxy_status_code(outcome),
                        headers |-> IF outcome.kind = "response"
                                    THEN forwarded_headers(outcome.headers)
                                    ELSE EmptyDict,
                        content |-> IF outcome.kind = "response"
                                    THEN outcome.content
                                    ELSE outcome.kind,
                        outcome |-> outcome,
                        marked |-> marks,
                        request |-> r]]
    /\ fwd' = [fwd EXCEPT ![r] = Idle]
    /\ UNCHANGED <<last_heartbeat, now, last_call, attempts, probe_vars,
                   probe_streak, redis_vars, queue_vars, pool_vars, lb_vars,
                   sched_vars, metrics_vars, rr_vars, stop_vars>>
    /\ observe_health

proxy_response(r, outcome) ==
    /\ proxy_response_call(r, outcome)
    /\ UNCHANGED fwd_batch

\* the same with the observer of the forwards in flight together
proxy_response_observed(r, outcome) ==
    /\ proxy_response_call(r, outcome)
    /\ fwd_batch' = [fwd_batch EXCEPT ![ret'.arg] =
                        [@ EXCEPT !.ok = @ \/ ~proxy_failed(outcome),
                                  !.marked = @ \/ ret'.result.marked]]

\* -------------------------------------------------------------- probe pool
\* max_backends and the maxlen of the two deques of an entry
max_backends == 16
window_maxlen == 1000

\* a float as a fraction num/den (so that a mean stays exact); float("inf")
\* is 1/0
Frac(n, d) == [num |-> n, den |-> d]
inf == Frac(1, 0)
Lt(x, y) == x.num * y.den < y.num * x.den
Eq(x, y) == x.num * y.den = y.num * x.den

RECURSIVE Sum(_)
Sum(values) == IF values = <<>> THEN 0 ELSE Head(values) + Sum(Tail(values))

\* sum(latencies) / len(latencies)
mean(values) == Frac(Sum(values), Len(values))

\* statistics.median(values), doubled (the median of an even number of
\* integers can end in .5)
Kth(values, k) ==
    CHOOSE v \in Range(values) :
        /\ Cardinality({i \in 1..Len(values) : values[i] < v}) < k
        /\ Cardinality({i \in 1..Len(values) : values[i] <= v}) >= k
median2(values) ==
    LET n == Len(values) IN
    IF n % 2 = 1 THEN 2 * Kth(values, (n + 1) \div 2)
    ELSE Kth(values, n \div 2) + Kth(values, n \div 2 + 1)

\* deque(maxlen=1000).append
deque_append(window, x) ==
    IF Len(window) >= window_maxlen
    THEN Append(Tail(window), x) ELSE Append(window, x)

\* what a probe reports: rif_avg_latency and in_flight_requests
ProbeSamples == [latency : LatencyValues, rif : RifValues]

\* the temperature add_probe stores: "hot" if rif_value > rif_median
HotAtOrAboveMedian(rif_value, rif_values) ==
    IF 2 * rif_value >= median2(rif_values) THEN "hot" ELSE "cold"
pool_temperature(rif_value, rif_values) ==
    IF 2 * rif_value > median2(rif_values) THEN "hot" ELSE "cold"

\* next(iter(self.probes)): the key inserted first
NewestBackend(keys) == keys[Len(keys)]
oldest_backend(keys) == Head(keys)

\* add_probe, the section under its first `async with self._lock`: the pool
\* after it, as [probes, keys]; a new entry has no "temperature" key (None)
add_probe_first_section(probes, keys, backend_id, latency, rif_value) ==
    LET known == backend_id \in DOMAIN probes
        evicted == IF ~known /\ Len(keys) >= max_backends
                   THEN {oldest_backend(keys)} ELSE {}
        old == IF known THEN probes[backend_id]
               ELSE [latencies |-> <<>>, rif_values |-> <<>>,
                     temperature |-> None]
        latencies == deque_append(old.latencies, latency)
        rif_values == deque_append(old.rif_values, rif_value)
        entry == [latencies |-> latencies,
                  rif_values |-> rif_values,
                  current_rif |-> 0,
                  current_latency |-> mean(latencies),
                  temperature |-> old.temperature]
    IN [probes |-> [k \in ((DOMAIN probes) \ evicted) \cup {backend_id} |->
                      IF k = backend_id THEN entry ELSE probes[k]],
        keys |-> IF known THEN keys
                 ELSE Append(SelectSeq(keys, LAMBDA k : k \notin evicted),
                             backend_id)]

\* add_probe, the section under its second `async with self._lock`
add_probe_second_section(probes, backend_id, temp_temperature) ==
    IF backend_id \in DOMAIN probes
    THEN [probes EXCEPT ![backend_id].temperature = temp_temperature]
    ELSE probes

\* ProbePool.add_probe, run from its call to its return: the pool after the
\* call, as [probes, keys]
pool_add_probe(probes, keys, backend_id, latency, rif_value) ==
    LET first == add_probe_first_section(probes, keys, backend_id, latency,
                                         rif_value)
        temp_temperature ==
            pool_temperature(rif_value, first.probes[backend_id].rif_values)
    IN [probes |-> add_probe_second_section(first.probes, backend_id,
                                            temp_temperature),
        keys |-> first.keys]

\* ----------------------------------------------------------- probe manager
Probes == 1..MaxProbes
\* what the probe's GET can end in: 200 with a valid body, another status, or
\* an exception (network error, timeout, unparsable body)
ProbeOutcomes == {"ok", "status", "exception"}

\* send_probe up to the GET
send_probe(w, backend_url) ==
    /\ probing[w] = None
    /\ probing' = [probing EXCEPT ![w] = backend_url]
    /\ ret' = [op |-> "send_probe", arg |-> backend_url, pre |-> {},
               result |-> None]
    /\ UNCHANGED <<registry_vars, now, last_call, proxy_vars, pm_failures,
                   probe_streak, redis_vars, queue_vars, pool_vars, lb_vars,
                   sched_vars, unprobed_for, metrics_vars, rr_vars, stop_vars>>

\* _handle_probe_failure: failure_count >= threshold
ProbeThresholdExceededOnly(failure_count) ==
    failure_count > consecutive_failure_threshold
probe_threshold_reached(failure_count) ==
    failure_count >= consecutive_failure_threshold

\* _handle_probe_failure: the counter after one more failure
ProbeFailureCountRestarted(backend_url) == 1
CombinedFailureCount(backend_url) ==
    Get(pm_failures, backend_url, 0) + Get(ph_failures, backend_url, 0) + 1
probe_failure_count(backend_url) == Get(pm_failures, backend_url, 0) + 1

handle_probe_failure(backend_url) ==
    LET failure_count == probe_failure_count(backend_url) IN
    /\ pm_failures' = Put(pm_failures, backend_url, failure_count)
    /\ backends' = IF probe_threshold_reached(failure_count)
                   THEN marked_unhealthy(backend_url)
                   ELSE backends

\* send_probe from the GET's outcome on; a 200 carries the probe's sample
probe_response(w, outcome, sample) ==
    /\ probing[w] # None
    /\ LET backend_url == probing[w]
           failed == outcome # "ok"
           added == pool_add_probe(pool_probes, pool_keys, backend_url,
                                   sample.latency, sample.rif)
       IN
       /\ IF failed
          THEN /\ Get(pm_failures, backend_url, 0) < MaxFailures
               /\ handle_probe_failure(backend_url)
               /\ probe_streak' = [probe_streak EXCEPT ![backend_url] = @ + 1]
               /\ UNCHANGED pool_vars
          ELSE /\ Len(Get(pool_probes, backend_url,
                          [latencies |-> <<>>]).latencies) < MaxSamples
               /\ pool_probes' = added.probes
               /\ pool_keys' = added.keys
               /\ pool_waiters' = pool_waiters
               /\ pm_failures' = Pop(pm_failures, backend_url)
               /\ backends' = backends
               /\ probe_streak' = [probe_streak EXCEPT ![backend_url] = 0]
       /\ ret' = [op |-> "probe_response", arg |-> backend_url,
                  pre |-> Stored(backend_url),
                  result |->
                    [outcome |-> outcome,
                     marked |-> failed /\ probe_threshold_reached(
                                               probe_failure_count(backend_url))]]
    /\ probing' = [probing EXCEPT ![w] = None]
    /\ UNCHANGED <<last_heartbeat, now, last_call, proxy_vars, redis_vars,
                   queue_vars, lb_vars, sched_vars, metrics_vars, rr_vars, stop_vars>>
    /\ observe_health

\* -------------------------------------------------------- probe task queue
\* asyncio runs one coroutine at a time and switches only at an await that
\* suspends.  Neither self._lock nor the condition's own lock is ever held
\* across a suspension (Condition.wait releases the condition's lock before it
\* suspends), so every acquisition succeeds at once: add_task is one step, and
\* get_task suspends only inside wait_for, when the set is empty.
Consumers == 1..MaxConsumers
Without(seq, x) == SelectSeq(seq, LAMBDA y : y # x)

\* the size property: len(self._set)
size == Cardinality(tq_set)

\* add_task: whether backend_id is added and a waiter signalled
AddTaskAlwaysNotifies(backend_id) == TRUE
add_task_is_new(backend_id) == backend_id \notin tq_set

\* Condition.notify(): the first waiter whose future is not done
NotifyFirstWaiter(waiters) ==
    IF waiters = <<>> THEN {} ELSE {Head(waiters)}
notify(waiters) ==
    LET pending == SelectSeq(waiters, LAMBDA c : c \notin tq_woken)
    IN IF pending = <<>> THEN {} ELSE {Head(pending)}

add_task_step(backend_id) ==
    /\ IF add_task_is_new(backend_id)
       THEN /\ tq_set' = tq_set \cup {backend_id}
            /\ tq_woken' = tq_woken \cup notify(tq_waiters)
       ELSE UNCHANGED <<tq_set, tq_woken>>
    /\ tq_order' = IF backend_id \in Range(tq_order)
                   THEN tq_order ELSE Append(tq_order, backend_id)
    /\ ret' = [op |-> "add_task", arg |-> backend_id, pre |-> {}, result |-> None]

\* a call of add_task
add_task(backend_id) ==
    /\ add_task_step(backend_id)
    /\ UNCHANGED <<registry_vars, now, last_call, proxy_vars, probe_vars,
                   probe_streak, redis_vars, tq_waiters, pool_vars, lb_vars,
                   sched_vars, unprobed_for, metrics_vars, rr_vars, stop_vars>>

\* get_task from where it stands (its start, or its wake-up inside wait_for):
\* with the set empty it suspends in wait_for; otherwise it leaves wait_for,
\* pops an element of the set (set.pop() returns an arbitrary one) and returns
get_task_step(c) ==
    IF tq_set = {}
    THEN /\ tq_waiters' = Append(Without(tq_waiters, c), c)
         /\ tq_woken' = tq_woken \ {c}
         /\ ret' = [op |-> "get_task.wait", arg |-> c, pre |-> {}, result |-> None]
         /\ UNCHANGED <<tq_set, tq_order>>
    ELSE \E backend_id \in tq_set :
         /\ tq_set' = tq_set \ {backend_id}
         /\ tq_waiters' = Without(tq_waiters, c)
         /\ tq_woken' = tq_woken \ {c}
         /\ tq_order' = Without(tq_order, backend_id)
         /\ ret' = [op |-> "get_task", arg |-> c, pre |-> {},
                    result |-> backend_id]

\* a call of get_task
get_task(c) ==
    /\ c \notin Range(tq_waiters)
    /\ get_task_step(c)
    /\ UNCHANGED <<registry_vars, now, last_call, proxy_vars, probe_vars,
                   probe_streak, redis_vars, pool_vars, lb_vars, sched_vars,
                   unprobed_for, metrics_vars, rr_vars, stop_vars>>

\* a suspended get_task runs again after notify() completed its future
get_task_resume(c) ==
    /\ c \in tq_woken
    /\ get_task_step(c)
    /\ UNCHANGED <<registry_vars, now, last_call, proxy_vars, probe_vars,
                   probe_streak, redis_vars, pool_vars, lb_vars, sched_vars,
                   unprobed_for, metrics_vars, rr_vars, stop_vars>>

\* asyncio.Lock.acquire of self._lock returns without suspending when the
\* lock is free and no call waits for it; every section under self._lock runs
\* without suspending, so a call that is about to acquire finds the lock free
AcquireAlwaysSuspends == TRUE
lock_acquire_suspends == pool_waiters # <<>>

\* ProbePool.add_probe, called on its own (the window bounded for the check):
\* from the call to its return, or to its suspension at the second
\* `async with self._lock` when that suspends
add_probe(backend_id, sample) ==
    /\ Len(Get(pool_probes, backend_id,
               [latencies |-> <<>>]).latencies) < MaxSamples
    /\ LET first == add_probe_first_section(pool_probes, pool_keys, backend_id,
                                            sample.latency, sample.rif)
           temp_temperature ==
               pool_temperature(sample.rif,
                                first.probes[backend_id].rif_values)
       IN /\ pool_keys' = first.keys
          /\ IF lock_acquire_suspends
             THEN /\ pool_probes' = first.probes
                  /\ pool_waiters' =
                        Append(pool_waiters,
                               [backend_id |-> backend_id,
                                temp_temperature |-> temp_temperature])
             ELSE /\ pool_probes' =
                        add_probe_second_section(first.probes, backend_id,
                                                 temp_temperature)
                  /\ pool_waiters' = pool_waiters
    /\ ret' = [op |-> IF lock_acquire_suspends THEN "add_probe.suspended"
                      ELSE "add_probe",
               arg |-> backend_id, pre |-> {}, result |-> None]
    /\ UNCHANGED <<registry_vars, now, last_call, proxy_vars, probe_vars,
                   probe_streak, redis_vars, queue_vars, lb_vars, sched_vars,
                   unprobed_for, metrics_vars, rr_vars, stop_vars>>

\* the add_probe call that waits for self._lock first gets it and runs to
\* its return
add_probe_resumes ==
    /\ pool_waiters # <<>>
    /\ LET call == Head(pool_waiters)
       IN /\ pool_probes' =
                add_probe_second_section(pool_probes, call.backend_id,
                                         call.temp_temperature)
          /\ ret' = [op |-> "add_probe", arg |-> call.backend_id, pre |-> {},
                     result |-> None]
    /\ pool_waiters' = Tail(pool_waiters)
    /\ pool_keys' = pool_keys
    /\ UNCHANGED <<registry_vars, now, last_call, proxy_vars, probe_vars,
                   probe_streak, redis_vars, queue_vars, lb_vars, sched_vars,
                   unprobed_for, metrics_vars, rr_vars, stop_vars>>

\* a step of the add_probe calls: the call that waits for the lock goes on;
\* when none waits, a new call runs
add_probe_step(backend_id, sample) ==
    IF pool_waiters # <<>> THEN add_probe_resumes
    ELSE add_probe(backend_id, sample)

\* probe.get(key, None) of the entry of bid, as the set of the values read
\* (empty for None)
probe_get(bid, key) ==
    IF bid \notin DOMAIN pool_probes THEN {}
    ELSE IF key = "temperature" /\ pool_probes[bid].temperature = None THEN {}
    ELSE {pool_probes[bid][key]}

\* ProbePool.get_backend_data_batch: one section under self._lock
get_backend_data_batch(backend_ids) ==
    /\ ret' = [op |-> "get_backend_data_batch", arg |-> backend_ids,
               pre |-> {},
               result |->
                 [temperatures |-> [i \in DOMAIN backend_ids |->
                      probe_get(backend_ids[i], "temperature")],
                  latencies |-> [i \in DOMAIN backend_ids |->
                      probe_get(backend_ids[i], "current_latency")],
                  rifs |-> [i \in DOMAIN backend_ids |->
                      probe_get(backend_ids[i], "current_rif")]]]
    /\ UNCHANGED <<registry_vars, now, last_call, proxy_vars, probe_vars,
                   probe_streak, redis_vars, queue_vars, pool_vars, lb_vars,
                   sched_vars, unprobed_for, metrics_vars, rr_vars, stop_vars>>

\* ------------------------------------------------- Prequal load balancer
\* ProbePool.get_rif_values: the RIF window of backend_id, oldest first
get_rif_values(backend_id) ==
    IF backend_id \in DOMAIN pool_probes
    THEN pool_probes[backend_id].rif_values ELSE <<>>

\* ProbePool.get_current_latency: the current latency of backend_id, as the
\* set of the values it yields (none stands for None)
get_current_latency(backend_id) ==
    IF backend_id \in DOMAIN pool_probes
    THEN {pool_probes[backend_id].current_latency} ELSE {}

\* Python's `x or float("inf")` for x a float or None: None and 0.0 are falsy
or_inf(x) ==
    IF x = {} THEN inf
    ELSE LET v == CHOOSE v \in x : TRUE IN IF v.num = 0 THEN inf ELSE v

\* min(values) over the values of a dict of floats
min(values) ==
    CHOOSE b \in {values[k] : k \in DOMAIN values} :
        \A k \in DOMAIN values : ~Lt(values[k], b)

\* [b for b in all_backends if b.health], as the set of their URLs
\* (HealthyBackendsUnfiltered: without the filter)
HealthyBackendsUnfiltered(table) == DOMAIN table
healthy_backends(table) == {u \in DOMAIN table : table[u].health}

\* a get_next_backend call: where it stands and its local variables
LbIdle ==
    [pc |-> "idle", healthy |-> {}, cold |-> {}, hot |-> {},
     cached_latencies |-> EmptyDict, now_fresh |-> FALSE, at_call |-> {}]

\* what get_next_backend returns, with the sets it chose from
\* and the step of the call that returned
lb_return(selected, call, step) ==
    [op |-> "get_next_backend", arg |-> None, pre |-> {},
     result |-> [url |-> selected, healthy |-> call.healthy,
                 cold |-> call.cold, hot |-> call.hot,
                 at_call |-> call.at_call, step |-> step]]

\* get_next_backend up to _classify_backends' gather: the healthy list comes
\* from the cache unless the cache is unset or older than _cache_timeout
get_next_backend ==
    /\ lb_call.pc = "idle"
    /\ LET refresh == healthy_backends_cache = {} \/ ~healthy_backends_fresh
           listed == IF refresh THEN listed_backends ELSE backends
           healthy == IF refresh THEN healthy_backends(listed)
                      ELSE CHOOSE h \in healthy_backends_cache : TRUE
           call == [LbIdle EXCEPT
                      !.healthy = healthy,
                      !.at_call = {u \in URLS : u \in DOMAIN listed
                                                 /\ listed[u].health}]
       IN /\ backends' = listed
          /\ healthy_backends_cache' = {healthy}
          /\ healthy_backends_fresh' = TRUE
          /\ lb_read' = IF refresh THEN call.at_call ELSE lb_read
          /\ IF healthy = {}
             THEN /\ lb_call' = LbIdle
                  /\ ret' = lb_return(None, call, "call")
             ELSE /\ lb_call' = [call EXCEPT !.pc = "classify"]
                  /\ ret' = [op |-> "get_next_backend.call", arg |-> None,
                             pre |-> {}, result |-> None]
    /\ UNCHANGED <<last_heartbeat, now, last_call, proxy_vars, probe_vars,
                   probe_streak, redis_vars, queue_vars, pool_vars,
                   latency_cache, latency_fresh, rif_median_cache, sched_vars,
                   metrics_vars, rr_vars, stop_vars>>
    /\ observe_health

\* _classify_backends from the gather's result on, and _select_backend up to
\* its own gather (which it needs only for a cold backend whose latency is
\* not in the cache or is older than _cache_timeout)
lb_classify ==
    /\ lb_call.pc = "classify"
    /\ LET healthy == lb_call.healthy
           rifs_map == [u \in healthy |-> get_rif_values(u)]
           last(u) == rifs_map[u][Len(rifs_map[u])]
           cache_key(u) == <<Len(rifs_map[u]), last(u)>>
           hit(u) == /\ u \in DOMAIN rif_median_cache
                     /\ rif_median_cache[u].last_info = cache_key(u)
           med2(u) == IF hit(u) THEN rif_median_cache[u].med2
                      ELSE median2(rifs_map[u])
           cold == {u \in healthy : rifs_map[u] = <<>> \/ 2 * last(u) < med2(u)}
           hot == healthy \ cold
           missed == {u \in healthy : rifs_map[u] # <<>> /\ ~hit(u)}
           cached(u) == IF u \in latency_fresh /\ u \in DOMAIN latency_cache
                        THEN {latency_cache[u]} ELSE {}
           uncached_backends == {u \in cold : cached(u) = {}}
           call == [lb_call EXCEPT !.cold = cold, !.hot = hot,
                                   !.cached_latencies = [u \in cold |-> cached(u)],
                                   !.now_fresh = TRUE]
           latencies == [u \in cold |-> CHOOSE l \in cached(u) : TRUE]
           cur_rifs == [u \in hot |->
                          or_inf({Frac(last(u), 1)})]
           values == IF cold # {} THEN latencies ELSE cur_rifs
           candidates == {u \in DOMAIN values : Eq(values[u], min(values))}
       IN /\ rif_median_cache' =
                [u \in (DOMAIN rif_median_cache) \cup missed |->
                   IF u \in missed
                   THEN [med2 |-> median2(rifs_map[u]), last_info |-> cache_key(u)]
                   ELSE rif_median_cache[u]]
          /\ IF cold # {} /\ uncached_backends # {}
             THEN /\ lb_call' = [call EXCEPT !.pc = "select"]
                  /\ ret' = [op |-> "get_next_backend.classified", arg |-> None,
                             pre |-> {}, result |-> None]
             ELSE \E selected \in candidates :
                  /\ lb_call' = LbIdle
                  /\ ret' = lb_return(selected, call, "classify")
    /\ UNCHANGED <<registry_vars, now, last_call, proxy_vars, probe_vars,
                   probe_streak, redis_vars, queue_vars, pool_vars,
                   healthy_backends_cache, healthy_backends_fresh,
                   latency_cache, latency_fresh, lb_read, sched_vars,
                   unprobed_for, metrics_vars, rr_vars, stop_vars>>

\* _select_backend from the gather of get_current_latency on
lb_select ==
    /\ lb_call.pc = "select"
    /\ LET cold == lb_call.cold
           cached_latencies == lb_call.cached_latencies
           uncached_backends == {u \in cold : cached_latencies[u] = {}}
           fresh_latencies == [u \in uncached_backends |-> get_current_latency(u)]
           stored == {u \in uncached_backends : fresh_latencies[u] # {}}
           latencies == [u \in cold |->
                           IF u \in uncached_backends
                           THEN or_inf(fresh_latencies[u])
                           ELSE CHOOSE l \in cached_latencies[u] : TRUE]
           candidates == {u \in cold : Eq(latencies[u], min(latencies))}
       IN /\ latency_cache' =
                [u \in (DOMAIN latency_cache) \cup stored |->
                   IF u \in stored
                   THEN CHOOSE l \in fresh_latencies[u] : TRUE
                   ELSE latency_cache[u]]
          /\ latency_fresh' = IF lb_call.now_fresh
                              THEN latency_fresh \cup stored
                              ELSE latency_fresh \ stored
          /\ \E selected \in candidates :
                /\ lb_call' = LbIdle
                /\ ret' = lb_return(selected, lb_call, "select")
    /\ UNCHANGED <<registry_vars, now, last_call, proxy_vars, probe_vars,
                   probe_streak, redis_vars, queue_vars, pool_vars,
                   healthy_backends_cache, healthy_backends_fresh,
                   rif_median_cache, lb_read, sched_vars, unprobed_for,
                   metrics_vars, rr_vars, stop_vars>>

\* more than _cache_timeout goes by since some of the cached values were
\* stamped: they are no longer fresh
cache_timeout_elapses ==
    /\ \E healthy_stale \in BOOLEAN, stale \in SUBSET latency_fresh,
          now_stale \in BOOLEAN :
          /\ healthy_backends_fresh' = (healthy_backends_fresh /\ ~healthy_stale)
          /\ latency_fresh' = latency_fresh \ stale
          /\ lb_call' = [lb_call EXCEPT !.now_fresh = @ /\ ~now_stale]
          /\ <<healthy_backends_fresh', latency_fresh', lb_call'>>
                # <<healthy_backends_fresh, latency_fresh, lb_call>>
    /\ ret' = [op |-> "cache_timeout_elapses", arg |-> None, pre |-> {},
               result |-> None]
    /\ UNCHANGED <<registry_vars, now, last_call, proxy_vars, probe_vars,
                   probe_streak, redis_vars, queue_vars, pool_vars,
                   healthy_backends_cache, latency_cache, rif_median_cache,
                   lb_read, sched_vars, unprobed_for, metrics_vars, rr_vars, stop_vars>>

\* ------------------------------------------------------- probe scheduler
\* time.time(): the seconds since 1970, in ticks of the clock
time == Epoch + now

\* all the orders in which a set can be iterated
Orders(S) ==
    {o \in [1..Cardinality(S) -> S] : \A i, j \in 1..Cardinality(S) :
                                         o[i] = o[j] => i = j}

\* _schedule_probe_tasks: whether a backend last scheduled at `last` is forced
ForcedAfterIntervalOnly(last) == time - last > min_probe_interval
forced(last) == time - last >= min_probe_interval

\* the ids a tick at this moment forces, of the ids it is given
NoForcedBackends(backend_ids) == {}
forced_backends(backend_ids) ==
    {u \in backend_ids : forced(Get(last_probe_time, u, 0))}

\* available = backend_ids - self._probe_history
AvailableWithReplacement(backend_ids, history) == backend_ids
available_backends(backend_ids, history) == backend_ids \ history

\* One turn of _probe_scheduler_loop, up to its sleep: list_backends and
\* _schedule_probe_tasks.  The add_task tasks that the previous turn created
\* have run during its sleep.  random.random() < R is either way (R is below
\* 1 once more than five turns fall in one second).
schedule_probe_tasks ==
    /\ created_tasks = <<>>
    /\ LET backend_ids == healthy_backends(listed_backends)
           kept == probe_history \cap backend_ids
           forced_ids == forced_backends(backend_ids)
           restart == available_backends(backend_ids, kept) = {}
           available == IF restart THEN backend_ids
                        ELSE available_backends(backend_ids, kept)
           history == IF restart THEN {} ELSE kept
           picked == IF restart THEN EmptyDict
                     ELSE [u \in DOMAIN picks |->
                             picks[u] /\ u \in backend_ids]
       IN \E order \in Orders(forced_ids), drawn \in SUBSET available :
             /\ Cardinality(drawn) <= 1
             /\ probe_history' = history \cup drawn
             /\ picks' = [u \in (DOMAIN picked) \cup drawn |->
                            IF u \in drawn THEN TRUE ELSE picked[u]]
             /\ last_probe_time' =
                   [u \in (DOMAIN last_probe_time) \cup forced_ids \cup drawn |->
                      IF u \in forced_ids \cup drawn THEN time
                      ELSE last_probe_time[u]]
             /\ created_tasks' =
                   order \o [i \in 1..Cardinality(drawn) |->
                               CHOOSE u \in drawn : TRUE]
             /\ ret' = [op |-> "schedule_probe_tasks", arg |-> None,
                        pre |-> last_probe_time,
                        result |-> [healthy |-> backend_ids,
                                    forced |-> forced_ids, drawn |-> drawn,
                                    kept |-> kept, cleared |-> restart,
                                    picked |-> picked]]
    /\ backends' = listed_backends
    /\ sched_ran' = TRUE
    /\ observe_health
    /\ UNCHANGED <<last_heartbeat, now, last_call, proxy_vars, probe_vars,
                   probe_streak, redis_vars, queue_vars, pool_vars, lb_vars,
                   metrics_vars, rr_vars, stop_vars>>

\* a task made by asyncio.create_task(self._probe_task_queue.add_task(id))
\* runs: the tasks run in the order of their creation
created_task_runs ==
    /\ created_tasks # <<>>
    /\ add_task_step(Head(created_tasks))
    /\ created_tasks' = Tail(created_tasks)
    /\ UNCHANGED <<registry_vars, now, last_call, proxy_vars, probe_vars,
                   probe_streak, redis_vars, tq_waiters, pool_vars, lb_vars,
                   probe_history, last_probe_time, sched_ran, picks,
                   unprobed_for,
                   metrics_vars, rr_vars, stop_vars>>

\* ProbeManager.run, worker w: get_task, and with the URL it returns
\* send_probe up to its GET (task_done does nothing)
run_step(w) ==
    /\ get_task_step(w)
    /\ probing' = IF tq_set = {} THEN probing
                  ELSE [probing EXCEPT ![w] = ret'.result]
    /\ unprobed_for' = IF tq_set = {} THEN unprobed_for
                       ELSE [unprobed_for EXCEPT ![ret'.result] = 0]
    /\ UNCHANGED <<registry_vars, now, last_call, proxy_vars, pm_failures,
                   probe_streak, redis_vars, pool_vars, lb_vars, sched_vars,
                   metrics_vars, rr_vars, stopped>>

\* `while self._running` at the top of the loop of run: a call that starts
\* has just set self._running = True
loop_exits(w) ==
    /\ run_state[w] = "looping"
    /\ ~pm_running
    /\ probing[w] = None
    /\ w \notin Range(tq_waiters)

\* run starts, or its loop comes round, and reaches get_task; the tasks one
\* turn of the scheduler created run one after the other (add_task does not
\* suspend), so a worker runs before the first of them or after the last
run(w) ==
    /\ created_tasks = <<>>
    /\ probing[w] = None
    /\ w \notin Range(tq_waiters)
    /\ \/ run_state[w] = "created"
       \/ run_state[w] = "looping" /\ pm_running
    /\ pm_running' = TRUE
    /\ run_state' = [run_state EXCEPT ![w] = "looping"]
    /\ run_step(w)

\* the get_task of run, suspended, runs again after notify()
run_resume(w) ==
    /\ created_tasks = <<>>
    /\ probing[w] = None
    /\ w \in tq_woken
    /\ run_step(w)
    /\ UNCHANGED <<pm_running, run_state>>

\* the loop of run finds self._running false and run returns
run_returns(w) ==
    /\ loop_exits(w)
    /\ run_state' = [run_state EXCEPT ![w] = "returned"]
    /\ ret' = [op |-> "run", arg |-> w, pre |-> {}, result |-> None]
    /\ UNCHANGED <<registry_vars, now, last_call, proxy_vars, probe_vars,
                   probe_streak, redis_vars, queue_vars, pool_vars, lb_vars,
                   sched_vars, unprobed_for, metrics_vars, rr_vars,
                   pm_running, stopped>>

\* ProbeManager.stop
stop ==
    /\ pm_running' = FALSE
    /\ stopped' = TRUE
    /\ ret' = [op |-> "stop", arg |-> None, pre |-> {}, result |-> None]
    /\ UNCHANGED <<registry_vars, now, last_call, proxy_vars, probe_vars,
                   probe_streak, redis_vars, queue_vars, pool_vars, lb_vars,
                   sched_vars, unprobed_for, metrics_vars, rr_vars,
                   run_state>>

\* everything that takes far less than a tick of the clock has happened: the
\* scheduler has had its turn, the tasks it created have run, the workers
\* have taken the pending URLs and their probes have returned
Quiet ==
    /\ sched_ran
    /\ created_tasks = <<>>
    /\ tq_set = {}
    /\ \A w \in Probes : probing[w] = None

\* --------------------------------------------------------- metrics manager
\* The requests a backend serves through prometheus_middleware, and what
\* `await call_next(request)` ends in
MwRequests == 1..MaxMwRequests
CallNextOutcomes == {"response", "raises"}

\* _get_rif_key with no bins configured (rif_bins = None): the RIF itself
get_rif_key(rif) == rif

\* the requests inside prometheus_middleware
in_progress == {r \in MwRequests : mw_calls[r] # {}}

\* the latencies recorded so far, over all keys
RECURSIVE recorded(_)
recorded(keys) ==
    IF keys = {} THEN 0
    ELSE LET k == CHOOSE x \in keys : TRUE
         IN Len(rif_latencies[k]) + recorded(keys \ {k})

\* the gauge after the finally clause, which runs whatever call_next ended
\* in: self.IN_FLIGHT.dec()
DecOnResponseOnly(value, outcome) ==
    IF outcome = "response" THEN value - 1 ELSE value
in_flight_after_finally(value, outcome) == value - 1

\* prometheus_middleware up to `await call_next(request)` (the number of
\* requests bounded for the check)
prometheus_middleware(r) ==
    /\ mw_calls[r] = {}
    /\ Cardinality(in_progress) + recorded(DOMAIN rif_latencies) < MaxHandled
    /\ IN_FLIGHT' = IN_FLIGHT + 1
    /\ mw_calls' = [mw_calls EXCEPT ![r] = {IN_FLIGHT'}]
    /\ ret' = [op |-> "prometheus_middleware", arg |-> r, pre |-> {},
               result |-> None]
    /\ UNCHANGED <<rif_latencies, active_rif_keys>>
    /\ UNCHANGED <<registry_vars, now, last_call, proxy_vars, probe_vars,
                   probe_streak, redis_vars, queue_vars, pool_vars, lb_vars,
                   sched_vars, unprobed_for, rr_vars, stop_vars>>

\* call_next returns a response or raises, and the finally clause runs
call_next_returns(r, outcome, elapsed) ==
    /\ mw_calls[r] # {}
    /\ LET rif_at_start == CHOOSE x \in mw_calls[r] : TRUE
           key == get_rif_key(rif_at_start)
       IN /\ IN_FLIGHT' = in_flight_after_finally(IN_FLIGHT, outcome)
          /\ rif_latencies' =
                Put(rif_latencies, key,
                    deque_append(Get(rif_latencies, key, <<>>), elapsed))
          /\ active_rif_keys' = active_rif_keys \cup {key}
    /\ mw_calls' = [mw_calls EXCEPT ![r] = {}]
    /\ ret' = [op |-> "prometheus_middleware.finally", arg |-> r, pre |-> {},
               result |-> outcome]
    /\ UNCHANGED <<registry_vars, now, last_call, proxy_vars, probe_vars,
                   probe_streak, redis_vars, queue_vars, pool_vars, lb_vars,
                   sched_vars, unprobed_for, rr_vars, stop_vars>>

\* MetricsManager.get_in_flight
get_in_flight ==
    /\ ret' = [op |-> "get_in_flight", arg |-> None, pre |-> {},
               result |-> IN_FLIGHT]
    /\ UNCHANGED metrics_vars
    /\ UNCHANGED <<registry_vars, now, last_call, proxy_vars, probe_vars,
                   probe_streak, redis_vars, queue_vars, pool_vars, lb_vars,
                   sched_vars, unprobed_for, rr_vars, stop_vars>>

\* ------------------------------------------------- round-robin load balancer
\* sorted(..., key=lambda b: (b.url, b.port)) of the healthy backends of a
\* registry: a URL is registered once, so the order is that of the URLs
SortedUrls == <<"http://a", "http://c">>
sorted_backends(table) ==
    SelectSeq(SortedUrls, LAMBDA u : u \in healthy_backends(table))

\* self._last_index = (self._last_index + 1) % len(backends)
RrSameIndex(last_index, n) == last_index % n
rr_next_index(last_index, n) == (last_index + 1) % n

\* RoundRobinLoadBalancer.get_next_backend
rr_get_next_backend ==
    LET sorted == sorted_backends(listed_backends)
        n == Len(sorted)
        url == IF n = 0 THEN None ELSE sorted[(rr_last_index % n) + 1]
    IN /\ backends' = listed_backends
       /\ rr_last_index' = IF n = 0 THEN rr_last_index
                           ELSE rr_next_index(rr_last_index, n)
       /\ rr_prev' = [backends |-> sorted, url |-> url]
       /\ ret' = [op |-> "round_robin.get_next_backend", arg |-> None,
                  pre |-> rr_prev,
                  result |-> [backends |-> sorted, url |-> url]]
       /\ UNCHANGED <<last_heartbeat, now, last_call, proxy_vars, probe_vars,
                      probe_streak, redis_vars, queue_vars, pool_vars, lb_vars,
                      sched_vars, metrics_vars, stop_vars>>
       /\ observe_health

\* ---------------------------------------------------------- Redis registry
\* Each operation's WATCH/MULTI/EXEC transaction retries until it runs
\* undisturbed, so an operation is one step here.
\* ttl_seconds = max(self.heartbeat_timeout * 3, 30), in ticks of 10 seconds
MinTTL == 3
ttl_seconds ==
    IF timeout * 3 > MinTTL THEN timeout * 3 ELSE MinTTL

\* _get_backend_key / _get_heartbeat_key
backend_key(url) == <<"backend:", url>>
heartbeat_key(url) == <<"heartbeat:", url>>

\* Backend.model_dump_json and Backend.model_validate_json: the declared
\* fields are written out, and a Backend is constructed from what is read
BackendFields == {"url", "port", "health", "in_flight_requests", "avg_latency"}
model_dump_json(b) == [f \in BackendFields |-> b[f]]
model_validate_json(data) == Backend(data)

\* Redis commands on the keyspace
redis_exists(k) == k \in DOMAIN redis
redis_setex(store, k, v) == Put(store, k, v)
redis_set_ttl(expires, k) == Put(expires, k, now + ttl_seconds)

\* observer: the record Redis holds for url before a call ({} if none)
RedisStored(url) ==
    IF redis_exists(backend_key(url))
    THEN {model_validate_json(redis[backend_key(url)])}
    ELSE {}

\* RedisBackendRegistry.register: for an existing key the stored metrics are
\* copied into the incoming backend attribute by attribute; reading an
\* attribute the model does not declare raises, and nothing is written.
redis_register(p) ==
    LET b == Backend(p)
        existing == RedisStored(b.url)
        raises == \E e \in existing :
                      \/ GetAttr(e, "in_flight_requests") = {}
                      \/ GetAttr(e, "rif_avg_latency") = {}
                      \/ GetAttr(e, "overall_avg_latency") = {}
        merged == IF existing = {} THEN b
                  ELSE LET e == CHOOSE e \in existing : TRUE IN
                       [b EXCEPT !.in_flight_requests = e.in_flight_requests]
    IN
    /\ IF raises
       THEN /\ UNCHANGED redis_vars
            /\ ret' = [op |-> "redis.register", arg |-> p, pre |-> existing,
                       result |-> "raised"]
       ELSE /\ redis' = redis_setex(
                          redis_setex(redis, backend_key(b.url),
                                      model_dump_json(merged)),
                          heartbeat_key(b.url), now)
            /\ redis_expires' = redis_set_ttl(
                                  redis_set_ttl(redis_expires, backend_key(b.url)),
                                  heartbeat_key(b.url))
            /\ ret' = [op |-> "redis.register", arg |-> p, pre |-> existing,
                       result |-> "registered"]
    /\ UNCHANGED <<registry_vars, now, last_call, proxy_vars, probe_vars,
                   probe_streak, queue_vars, pool_vars, lb_vars, sched_vars,
                   unprobed_for, metrics_vars, rr_vars, stop_vars>>

\* RedisBackendRegistry.unregister: DEL backend_key heartbeat_key
redis_unregister(p) ==
    LET b == Backend(p)
        gone == {backend_key(b.url), heartbeat_key(b.url)}
    IN
    /\ redis' = [k \in (DOMAIN redis) \ gone |-> redis[k]]
    /\ redis_expires' = [k \in (DOMAIN redis_expires) \ gone |-> redis_expires[k]]
    /\ ret' = [op |-> "redis.unregister", arg |-> p, pre |-> RedisStored(b.url),
               result |-> "unregistered"]
    /\ UNCHANGED <<registry_vars, now, last_call, proxy_vars, probe_vars,
                   probe_streak, queue_vars, pool_vars, lb_vars, sched_vars,
                   unprobed_for, metrics_vars, rr_vars, stop_vars>>

\* RedisBackendRegistry.list_backends: a backend whose heartbeat key is
\* missing or older than the timeout is reported unhealthy; a backend that
\* turns unhealthy here is written back with SET (which clears the key's TTL)
redis_should_be_unhealthy(url) ==
    \/ ~redis_exists(heartbeat_key(url))
    \/ now - redis[heartbeat_key(url)] > timeout

redis_list_backends ==
    LET urls == {u \in URLS : redis_exists(backend_key(u))}
        read(u) == model_validate_json(redis[backend_key(u)])
        updated == {u \in urls : redis_should_be_unhealthy(u) /\ read(u).health}
        listed(u) == IF u \in updated
                     THEN [read(u) EXCEPT !.health = FALSE]
                     ELSE read(u)
    IN
    /\ redis' = [k \in DOMAIN redis |->
                   IF \E u \in updated : k = backend_key(u)
                   THEN LET u == CHOOSE u \in updated : k = backend_key(u)
                        IN model_dump_json(listed(u))
                   ELSE redis[k]]
    /\ redis_expires' = [k \in (DOMAIN redis_expires)
                               \ {backend_key(u) : u \in updated} |->
                           redis_expires[k]]
    /\ ret' = [op |-> "redis.list_backends", arg |-> None, pre |-> {},
               result |-> {listed(u) : u \in urls}]
    /\ UNCHANGED <<registry_vars, now, last_call, proxy_vars, probe_vars,
                   probe_streak, queue_vars, pool_vars, lb_vars, sched_vars,
                   unprobed_for, metrics_vars, rr_vars, stop_vars>>

\* RedisBackendRegistry.update_backend_health: writes only when the stored
\* health differs, refreshing the TTL of both keys; the value it computes
\* (True when written, False otherwise) is not returned to the caller
update_backend_health_returns(updated) == None

update_backend_health(url, health) ==
    LET stored == RedisStored(url)
        changed == \E e \in stored : e.health # health
        refreshed == {backend_key(url)} \cup
                     (IF redis_exists(heartbeat_key(url))
                      THEN {heartbeat_key(url)} ELSE {})
    IN
    /\ redis' = IF changed
                THEN LET e == CHOOSE e \in stored : TRUE IN
                     redis_setex(redis, backend_key(url),
                                 model_dump_json([e EXCEPT !.health = health]))
                ELSE redis
    /\ redis_expires' = IF changed
                        THEN [k \in (DOMAIN redis_expires) \cup refreshed |->
                                IF k \in refreshed THEN now + ttl_seconds
                                ELSE redis_expires[k]]
                        ELSE redis_expires
    /\ ret' = [op |-> "redis.mark_backend_unhealthy", arg |-> url,
               pre |-> stored,
               result |-> update_backend_health_returns(changed)]

\* RedisBackendRegistry.mark_backend_unhealthy:
\* return await self.update_backend_health(temp_backend, False)
redis_mark_backend_unhealthy(backend_url) ==
    /\ update_backend_health(backend_url, FALSE)
    /\ UNCHANGED <<registry_vars, now, last_call, proxy_vars, probe_vars,
                   probe_streak, queue_vars, pool_vars, lb_vars, sched_vars,
                   unprobed_for, metrics_vars, rr_vars, stop_vars>>

\* RedisBackendRegistry.is_backend_healthy
redis_is_backend_healthy(backend_url) ==
    /\ ret' = [op |-> "redis.is_backend_healthy", arg |-> backend_url,
               pre |-> RedisStored(backend_url),
               result |-> IF redis_exists(backend_key(backend_url))
                          THEN model_validate_json(
                                   redis[backend_key(backend_url)]).health
                          ELSE FALSE]
    /\ UNCHANGED <<registry_vars, now, last_call, proxy_vars, probe_vars,
                   probe_streak, redis_vars, queue_vars, pool_vars, lb_vars,
                   sched_vars, unprobed_for, metrics_vars, rr_vars, stop_vars>>

\* ----------------------------------------------------------- specification
Init ==
    /\ backends = EmptyDict
    /\ last_heartbeat = EmptyDict
    /\ now = 0
    /\ ret = [op |-> "init", arg |-> None, pre |-> {}, result |-> None]
    /\ last_call = [u \in URLS |-> "none"]
    /\ ph_failures = EmptyDict
    /\ fwd = [r \in Forwards |-> Idle]
    /\ fwd_streak = [u \in URLS |-> 0]
    /\ attempts = [r \in Forwards |-> <<>>]
    /\ fwd_batch = [u \in URLS |-> NoBatch]
    /\ pm_failures = EmptyDict
    /\ probing = [w \in Probes |-> None]
    /\ probe_streak = [u \in URLS |-> 0]
    /\ redis = EmptyDict
    /\ redis_expires = EmptyDict
    /\ tq_set = {}
    /\ tq_waiters = <<>>
    /\ tq_woken = {}
    /\ tq_order = <<>>
    /\ pool_probes = EmptyDict
    /\ pool_keys = <<>>
    /\ pool_waiters = <<>>
    /\ healthy_backends_cache = {}
    /\ healthy_backends_fresh = FALSE
    /\ latency_cache = EmptyDict
    /\ latency_fresh = {}
    /\ rif_median_cache = EmptyDict
    /\ lb_call = LbIdle
    /\ lb_read = {}
    /\ probe_history = {}
    /\ last_probe_time = EmptyDict
    /\ created_tasks = <<>>
    /\ sched_ran = FALSE
    /\ picks = EmptyDict
    /\ unprobed_for = [u \in URLS |-> 0]
    /\ IN_FLIGHT = 0
    /\ mw_calls = [r \in MwRequests |-> {}]
    /\ rif_latencies = EmptyDict
    /\ active_rif_keys = {}
    /\ rr_last_index = 0
    /\ rr_prev = [backends |-> <<>>, url |-> None]
    /\ pm_running = FALSE
    /\ run_state = [w \in Probes |-> "created"]
    /\ stopped = FALSE

\* unregister is called with a Backend built from the URL alone
UnregisterPayloads ==
    {p \in Payloads : ~p.health /\ p.in_flight_requests = 0
                        /\ p.rif_avg_latency = 0 /\ p.overall_avg_latency = 0}

Next ==
    \/ \E p \in Payloads : register(p)
    \/ \E p \in UnregisterPayloads : unregister(p)
    \/ list_backends
    \/ \E u \in URLS : mark_backend_unhealthy(u)
    \/ \E u \in URLS : is_backend_healthy(u)
    \/ Tick

Spec == Init /\ [][Next]_vars

\* The registry together with the forwarder and the probe manager, for the
\* backends of FwdURLS: they register with their health alone (metrics left
\* at their defaults) and are the targets of forwards and probes.
FwdURLS == {"http://c"}
FwdSamples == {s \in ProbeSamples : s.latency = 1 /\ s.rif = 0}
\* the upstream outcomes: every status and exception, and for a 200 every
\* combination of headers and body
FwdOutcomes ==
    {o \in UpstreamOutcomes :
        \/ o.kind = "response" /\ o.status = 200
        \/ o.headers = EmptyDict /\ o.content = ""}
HeartbeatPayloads ==
    {p \in Payloads : p.url \in FwdURLS /\ p.in_flight_requests = 0
                        /\ p.rif_avg_latency = 0 /\ p.overall_avg_latency = 0}

NextFwd ==
    \/ \E p \in HeartbeatPayloads : register(p)
    \/ \E p \in UnregisterPayloads : p.url \in FwdURLS /\ unregister(p)
    \/ \E r \in Requests, u \in FwdURLS \cup {""} : handle_proxy(r, u)
    \/ \E r \in Requests, o \in FwdOutcomes : proxy_response(r, o)
    \/ \E u \in FwdURLS : is_backend_healthy(u)
    \/ \E w \in Probes, u \in FwdURLS : send_probe(w, u)
    \/ \E w \in Probes, o \in ProbeOutcomes, s \in FwdSamples :
          probe_response(w, o, s)

SpecFwd == Init /\ [][NextFwd]_vars

\* the Redis-backed registry
RedisPayloads ==
    {p \in Payloads : p.rif_avg_latency = 0 /\ p.overall_avg_latency = 0}

NextRedis ==
    \/ \E p \in RedisPayloads : redis_register(p)
    \/ \E p \in UnregisterPayloads : redis_unregister(p)
    \/ redis_list_backends
    \/ \E u \in URLS : redis_mark_backend_unhealthy(u)
    \/ \E u \in URLS : redis_is_backend_healthy(u)
    \/ Tick

SpecRedis == Init /\ [][NextRedis]_vars

\* The Redis-backed registry with backends that send their heartbeats up to
\* the time HeartbeatsUntil and none afterwards, while other clients go on
\* calling list_backends, is_backend_healthy and mark_backend_unhealthy and
\* the clock advances (far enough for every TTL set on the way to run out).
HeartbeatsUntil == 0
MaxAgingTime == 6

TickAging == TickUpTo(MaxAgingTime)

NextAging ==
    \/ \E p \in RedisPayloads : now <= HeartbeatsUntil /\ redis_register(p)
    \/ redis_list_backends
    \/ \E u \in URLS : redis_mark_backend_unhealthy(u)
    \/ \E u \in URLS : redis_is_backend_healthy(u)
    \/ TickAging

SpecAging == Init /\ [][NextAging]_vars /\ WF_vars(TickAging)

\* The Prequal balancer over a registry whose backends come, go and are
\* marked unhealthy while it chooses; the backends of FwdURLS are probed,
\* each probe bringing the same sample.
ChooserPayloads ==
    {p \in Payloads : p.in_flight_requests = 0
                        /\ p.rif_avg_latency = 0 /\ p.overall_avg_latency = 0}

NextChooser ==
    \/ \E p \in ChooserPayloads : register(p)
    \/ \E p \in UnregisterPayloads : unregister(p)
    \/ \E u \in URLS : mark_backend_unhealthy(u)
    \/ \E u \in FwdURLS, s \in FwdSamples : add_probe(u, s)
    \/ get_next_backend
    \/ lb_classify
    \/ lb_select
    \/ cache_timeout_elapses

SpecChooser == Init /\ [][NextChooser]_vars

\* The Prequal balancer choosing among the backends of URLS, all registered
\* and healthy, over every pool that probes of up to MaxSamples samples for
\* each of them leave.
Windows == UNION {[1..n -> ProbeSamples] : n \in 0..MaxSamples}

RECURSIVE PoolWith(_, _, _)
PoolWith(pool, backend_id, window) ==
    IF window = <<>> THEN pool
    ELSE PoolWith(pool_add_probe(pool.probes, pool.keys, backend_id,
                                 Head(window).latency, Head(window).rif),
                  backend_id, Tail(window))

RECURSIVE PoolOf(_, _)
PoolOf(windows, urls) ==
    IF urls = {} THEN [probes |-> EmptyDict, keys |-> <<>>]
    ELSE LET u == CHOOSE u \in urls : TRUE
         IN PoolWith(PoolOf(windows, urls \ {u}), u, windows[u])

InitSelect ==
    /\ backends = [u \in URLS |-> Backend([url |-> u, health |-> TRUE])]
    /\ last_heartbeat = [u \in URLS |-> 0]
    /\ now = 0
    /\ ret = [op |-> "init", arg |-> None, pre |-> {}, result |-> None]
    /\ last_call = [u \in URLS |-> "register"]
    /\ ph_failures = EmptyDict
    /\ fwd = [r \in Forwards |-> Idle]
    /\ fwd_streak = [u \in URLS |-> 0]
    /\ attempts = [r \in Forwards |-> <<>>]
    /\ fwd_batch = [u \in URLS |-> NoBatch]
    /\ pm_failures = EmptyDict
    /\ probing = [w \in Probes |-> None]
    /\ probe_streak = [u \in URLS |-> 0]
    /\ redis = EmptyDict
    /\ redis_expires = EmptyDict
    /\ tq_set = {}
    /\ tq_waiters = <<>>
    /\ tq_woken = {}
    /\ tq_order = <<>>
    /\ \E windows \in [URLS -> Windows] :
          /\ pool_probes = PoolOf(windows, URLS).probes
          /\ pool_keys = PoolOf(windows, URLS).keys
          /\ pool_waiters = <<>>
    /\ healthy_backends_cache = {}
    /\ healthy_backends_fresh = FALSE
    /\ latency_cache = EmptyDict
    /\ latency_fresh = {}
    /\ rif_median_cache = EmptyDict
    /\ lb_call = LbIdle
    /\ lb_read = {}
    /\ probe_history = {}
    /\ last_probe_time = EmptyDict
    /\ created_tasks = <<>>
    /\ sched_ran = FALSE
    /\ picks = EmptyDict
    /\ unprobed_for = [u \in URLS |-> 0]
    /\ IN_FLIGHT = 0
    /\ mw_calls = [r \in MwRequests |-> {}]
    /\ rif_latencies = EmptyDict
    /\ active_rif_keys = {}
    /\ rr_last_index = 0
    /\ rr_prev = [backends |-> <<>>, url |-> None]
    /\ pm_running = FALSE
    /\ run_state = [w \in Probes |-> "created"]
    /\ stopped = FALSE

NextSelect ==
    \/ get_next_backend
    \/ lb_classify
    \/ lb_select
    \/ cache_timeout_elapses

SpecSelect == InitSelect /\ [][NextSelect]_vars

\* The probe pool filled beyond its capacity: backends are probed for the
\* first time in the order of their ids, MaxEvictions more of them than the
\* pool holds, and the first ReprobedIds of them are probed again and again.
PoolIds == 1..(max_backends + MaxEvictions)
ReprobedIds == 1..MaxEvictions
\* the id a first probe may come for: the one after the tracked ids
Untracked ==
    {id \in PoolIds : /\ \A k \in DOMAIN pool_probes : id > k
                      /\ id = 1 \/ id - 1 \in DOMAIN pool_probes}

NextPool ==
    \/ \E id \in Untracked, s \in FwdSamples : add_probe(id, s)
    \/ \E id \in ReprobedIds \cap DOMAIN pool_probes, s \in FwdSamples :
          add_probe(id, s)

SpecPool == Init /\ [][NextPool]_vars

\* The probe pool with its writers and readers: add_probe calls for the
\* backends of URLS with every sample, and batch reads between their steps.
BatchIds == {<<u>> : u \in URLS} \cup {<<u, v>> : u \in URLS, v \in URLS}
NextPoolReaders ==
    \/ \E id \in URLS, s \in ProbeSamples : add_probe_step(id, s)
    \/ \E ids \in BatchIds : get_backend_data_batch(ids)

SpecPoolReaders == Init /\ [][NextPoolReaders]_vars

RrPayloads ==
    {p \in Payloads : p.health /\ p.in_flight_requests = 0
                        /\ p.rif_avg_latency = 0 /\ p.overall_avg_latency = 0}

\* The scheduler's draw over both backends: they register healthy and are
\* marked unhealthy between the turns of the scheduler; the clock stands.
NextHistory ==
    \/ \E p \in RrPayloads : register(p)
    \/ \E u \in URLS : mark_backend_unhealthy(u)
    \/ schedule_probe_tasks
    \/ created_task_runs

SpecHistory == Init /\ [][NextHistory]_vars

\* A backend serving concurrent requests through prometheus_middleware.
NextMetrics ==
    \/ \E r \in MwRequests : prometheus_middleware(r)
    \/ \E r \in MwRequests, outcome \in CallNextOutcomes,
          elapsed \in LatencyValues : call_next_returns(r, outcome, elapsed)
    \/ get_in_flight

SpecMetrics == Init /\ [][NextMetrics]_vars

\* The round-robin balancer over the in-memory registry: backends register
\* healthy, are marked unhealthy, leave, and time out.
NextRoundRobin ==
    \/ \E p \in RrPayloads : register(p)
    \/ \E p \in UnregisterPayloads : unregister(p)
    \/ \E u \in URLS : mark_backend_unhealthy(u)
    \/ rr_get_next_backend
    \/ Tick

SpecRoundRobin == Init /\ [][NextRoundRobin]_vars

\* The probe scheduler and the probe workers over the registry: the backends
\* of FwdURLS register healthy (their heartbeat), are marked unhealthy and
\* leave; the clock ticks once everything that takes far less than a tick
\* has happened.
SchedPayloads == {p \in HeartbeatPayloads : p.health}

NextSched ==
    \/ \E p \in SchedPayloads : register(p)
    \/ \E p \in UnregisterPayloads : p.url \in FwdURLS /\ unregister(p)
    \/ \E u \in FwdURLS : mark_backend_unhealthy(u)
    \/ schedule_probe_tasks
    \/ created_task_runs
    \/ \E w \in Probes : run(w)
    \/ \E w \in Probes : run_resume(w)
    \/ \E w \in Probes, o \in ProbeOutcomes, s \in FwdSamples :
          probe_response(w, o, s)
    \/ Quiet /\ Tick

SpecSched == Init /\ [][NextSched]_vars

\* The registry with everything that reads or writes a backend's health: the
\* heartbeats of the backends of FwdURLS (healthy or not), list_backends,
\* is_backend_healthy, mark_backend_unhealthy, the forwarder (every status
\* and exception of the upstream call), the probe scheduler and the probe
\* workers, all within one heartbeat timeout.
RecoverOutcomes ==
    {o \in FwdOutcomes : o.headers = EmptyDict /\ o.content = ""}

\* one forward and one probe worker at a time
RecoverRequests == {1}
RecoverWorkers == {1}

NextRecover ==
    \/ \E p \in HeartbeatPayloads : register(p)
    \/ list_backends
    \/ \E u \in FwdURLS : is_backend_healthy(u)
    \/ \E u \in FwdURLS : mark_backend_unhealthy(u)
    \/ \E r \in RecoverRequests, u \in FwdURLS : handle_proxy(r, u)
    \/ \E r \in RecoverRequests, o \in RecoverOutcomes : proxy_response(r, o)
    \/ schedule_probe_tasks
    \/ created_task_runs
    \/ \E w \in RecoverWorkers : run(w)
    \/ \E w \in RecoverWorkers : run_resume(w)
    \/ \E w \in RecoverWorkers, o \in ProbeOutcomes, s \in FwdSamples :
          probe_response(w, o, s)

SpecRecover == Init /\ [][NextRecover]_vars

\* The forwarder with several handle_proxy calls in progress at a time, over
\* a registry in which the backends of FwdURLS send their heartbeats.
NextConcurrent ==
    \/ \E p \in HeartbeatPayloads : register(p)
    \/ \E r \in Forwards, u \in FwdURLS : handle_proxy_observed(r, u)
    \/ \E r \in Forwards, o \in RecoverOutcomes : proxy_response_observed(r, o)

SpecConcurrent == Init /\ [][NextConcurrent]_vars

\* The probe workers and the probe scheduler with ProbeManager.stop: the
\* scheduler loop has a turn every 20 ms, the tasks it creates run, a worker
\* that can go on does, and a probe's GET returns (it has a timeout).  When a
\* backend registers and when stop is called is up to the environment.  The
\* event loop runs every task that is ready, so a worker that can go on again
\* and again does go on (strong fairness).
NextStop ==
    \/ \E p \in SchedPayloads : register(p)
    \/ schedule_probe_tasks
    \/ created_task_runs
    \/ \E w \in Probes : run(w)
    \/ \E w \in Probes : run_resume(w)
    \/ \E w \in Probes, o \in ProbeOutcomes, s \in FwdSamples :
          probe_response(w, o, s)
    \/ \E w \in Probes : run_returns(w)
    \/ stop

SpecStop ==
    /\ Init
    /\ [][NextStop]_vars
    /\ WF_vars(schedule_probe_tasks)
    /\ WF_vars(created_task_runs)
    /\ \A w \in Probes :
          /\ SF_vars(run(w))
          /\ SF_vars(run_resume(w))
          /\ SF_vars(run_returns(w))
          /\ WF_vars(\E o \in ProbeOutcomes, s \in FwdSamples :
                        probe_response(w, o, s))

\* the probe task queue with its producers and consumers
NextQueue ==
    \/ \E u \in URLS : add_task(u)
    \/ \E c \in Consumers : get_task(c)
    \/ \E c \in Consumers : get_task_resume(c)

SpecQueue == Init /\ [][NextQueue]_vars

\* the event loop runs every task that is ready: a get_task whose future is
\* done runs again
SpecQueueFair ==
    SpecQueue /\ \A c \in Consumers : WF_vars(get_task_resume(c))

\* ------------------------------------------------------ properties: registry
\* what the properties read of the registry, written out on the state
Listed(u) == \E r \in ret.result : r.url = u
HealthyIn(table, u) == u \in DOMAIN table /\ table[u].health
HealthyNow(u) == HealthyIn(backends, u)
Quiescent(u) == now - last_heartbeat[u] > timeout

\* C1: list_backends() holds a record for u exactly when the most recent
\* register(u)/unregister(u) call was a register, whatever list_backends and
\* mark_backend_unhealthy calls came in between; the table agrees at all times.
C1_ListedIffLastCallWasRegister ==
    /\ \A u \in URLS : (u \in DOMAIN backends) <=> (last_call[u] = "register")
    /\ ret.op = "list_backends" =>
          \A u \in URLS : Listed(u) <=> (last_call[u] = "register")

C1_Witness ==
    /\ ret.op = "list_backends"
    /\ \E u, v \in URLS :
          /\ last_call[u] = "unregister" /\ ~Listed(u)
          /\ last_call[v] = "register" /\ Listed(v)
          /\ ~backends[v].health

\* C3: is_backend_healthy(u) returns false for a URL that is not in the
\* registry: never registered, or registered and then unregistered.
C3_AbsentIsUnhealthy ==
    (ret.op = "is_backend_healthy" /\ last_call[ret.arg] # "register")
        => ret.result = FALSE

C3_Witness ==
    /\ ret.op = "is_backend_healthy"
    /\ last_call[ret.arg] = "unregister"
    /\ ret.result = FALSE

\* C4: when no register(u) has arrived for longer than the heartbeat timeout,
\* list_backends() reports u with health=false and still lists u.
C4_QuiescentListedUnhealthy ==
    ret.op = "list_backends" =>
        \A u \in URLS :
            (last_call[u] = "register" /\ Quiescent(u)) =>
                /\ Listed(u)
                /\ \A r \in ret.result : r.url = u => r.health = FALSE

C4_Witness ==
    /\ ret.op = "list_backends"
    /\ \E u \in URLS :
          /\ last_call[u] = "register" /\ Quiescent(u)
          /\ Listed(u) /\ ~backends[u].health
    /\ \E v \in URLS : HealthyNow(v)

\* C5 (as claimed): once the last heartbeat of a registered u is older than
\* the heartbeat timeout, is_backend_healthy(u) returns false, also when no
\* list_backends() call has happened since.
C5_HealthCheckSeesTimeout ==
    (ret.op = "is_backend_healthy" /\ ret.arg \in DOMAIN backends
        /\ Quiescent(ret.arg)) => ret.result = FALSE

C8_LatestRegistrationWins ==
    (ret.op = "register" /\ ret.pre # {}) =>
        LET u == ret.arg.url IN
        /\ Cardinality({v \in DOMAIN backends : backends[v].url = u}) = 1
        /\ \A f \in {"in_flight_requests", "rif_avg_latency",
                     "overall_avg_latency", "health"} :
              GetAttr(backends[u], f) = {ret.arg[f]}

\* ------------------------------------------- properties: forwarder and probes
\* C2: when is_backend_healthy(backend_url) returned false at the gate,
\* handle_proxy issues no upstream request and returns 503
\* "Backend temporarily unavailable.".
C2_GateRejectsWithoutUpstreamCall ==
    (ret.op = "handle_proxy" /\ ret.result.gate = {FALSE}) =>
        /\ ret.result.upstream = FALSE
        /\ ret.result.status_code = 503
        /\ ret.result.content = "Backend temporarily unavailable."

C2_Witness ==
    /\ ret.op = "handle_proxy" /\ ret.result.gate = {FALSE}
    /\ ret.result.status_code = 503
    /\ \E b \in ret.pre : ~b.health
    /\ \A r \in Requests : fwd[r].pc = "idle"

\* C10: after consecutive_failure_threshold (3) failed probes of c in a row,
\* with no successful probe and no register(c) in between,
\* is_backend_healthy(c) is false and every handle_proxy to c returns 503
\* without an upstream call, until c registers again.
C10_ThreeFailedProbesOpenTheBreaker ==
    \A c \in URLS :
        probe_streak[c] >= consecutive_failure_threshold =>
            /\ ~HealthyNow(c)
            /\ (ret.op = "is_backend_healthy" /\ ret.arg = c) => ret.result = FALSE
            /\ (ret.op = "handle_proxy" /\ ret.arg = c) =>
                  /\ ret.result.status_code = 503
                  /\ ret.result.upstream = FALSE

C10_Witness ==
    \E c \in URLS :
        /\ probe_streak[c] = consecutive_failure_threshold
        /\ c \in DOMAIN backends
        /\ ret.op = "handle_proxy" /\ ret.arg = c
        /\ ret.result.status_code = 503 /\ ret.result.upstream = FALSE

\* C11: the probe manager's counter for a URL is 0 after a successful probe of
\* it and grows by one on each failed probe (non-200 status or exception);
\* mark_backend_unhealthy(u) is invoked on the failure that brings the counter
\* to the threshold (the registered backend is unhealthy afterwards) and on no
\* earlier failure (the registry is left as it was).
C11_ProbeCounterAndMark ==
    [][ ret'.op = "probe_response" =>
          LET u == ret'.arg
              before == Get(pm_failures, u, 0)
              after == Get(pm_failures', u, 0)
              failed == ret'.result.outcome # "ok"
          IN /\ ~failed => after = 0
             /\ failed => after = before + 1
             /\ (failed /\ after = consecutive_failure_threshold) =>
                   /\ ret'.result.marked
                   /\ ~HealthyIn(backends', u)
             /\ after < consecutive_failure_threshold =>
                   /\ ~ret'.result.marked
                   /\ backends' = backends ]_vars

C11_Witness ==
    /\ ret.op = "probe_response" /\ ret.result.outcome = "exception"
    /\ ret.result.marked
    /\ \E b \in ret.pre : b.health
    /\ pm_failures[ret.arg] = consecutive_failure_threshold
    /\ ~HealthyNow(ret.arg)

\* C12: the forwarder's counter for a URL equals the number of failed forwards
\* to it in a row (network error, timeout or status >= 500) since the last
\* upstream response with a status below 500.
C12_ProxyCounterIsFailureStreak ==
    \A u \in URLS : Get(ph_failures, u, 0) = fwd_streak[u]

C12_Witness ==
    /\ ret.op = "proxy_response"
    /\ ret.result.outcome.kind = "response" /\ ret.result.outcome.status = 500
    /\ fwd_streak[ret.arg] = 2
    /\ ph_failures[ret.arg] = 2

\* C13: the forwarder calls mark_backend_unhealthy(u) on the failed forward
\* that brings u's counter to the threshold (the registered backend is
\* unhealthy afterwards), and on no earlier failure (the registry is left as
\* it was).
C13_ProxyMarksAtThreshold ==
    [][ ret'.op = "proxy_response" =>
          LET u == ret'.arg
              after == Get(ph_failures', u, 0)
              failed == \/ ret'.result.outcome.kind # "response"
                        \/ ret'.result.outcome.status >= 500
          IN /\ (failed /\ after = consecutive_failure_threshold) =>
                   /\ ret'.result.marked
                   /\ ~HealthyIn(backends', u)
             /\ after < consecutive_failure_threshold =>
                   /\ ~ret'.result.marked
                   /\ backends' = backends ]_vars

C13_Witness ==
    /\ ret.op = "proxy_response" /\ ret.result.marked
    /\ ret.result.outcome.kind = "response"
    /\ \E b \in ret.pre : b.health
    /\ ph_failures[ret.arg] = consecutive_failure_threshold
    /\ ~HealthyNow(ret.arg)

\* C14: a forward that fails with a network error returns 502 and one that
\* times out returns 504, and in both cases the call made exactly one upstream
\* request, to backend_url: no retry and no other backend.
C14_ErrorStatusAndSingleAttempt ==
    (ret.op = "proxy_response" /\ ret.result.outcome.kind # "response") =>
        /\ ret.result.outcome.kind = "RequestError" => ret.result.status_code = 502
        /\ ret.result.outcome.kind = "TimeoutException" => ret.result.status_code = 504
        /\ attempts[ret.result.request] = <<ret.arg>>
        /\ fwd[ret.result.request] = Idle

C14_Witness ==
    /\ ret.op = "proxy_response"
    /\ ret.result.outcome.kind = "TimeoutException"
    /\ ret.result.status_code = 504
    /\ attempts[ret.result.request] = <<ret.arg>>
    /\ ret.arg \in FwdURLS

\* C15: the response handle_proxy returns for an upstream response carries no
\* Content-Encoding header, however the upstream spelled the name; every other
\* upstream header, the status and the body are passed through.
C15_ContentEncodingStripped ==
    (ret.op = "proxy_response" /\ ret.result.outcome.kind = "response") =>
        LET upstream == ret.result.outcome
            encoding == {"Content-Encoding", "content-encoding"}
        IN /\ DOMAIN ret.result.headers = (DOMAIN upstream.headers) \ encoding
           /\ \A k \in DOMAIN ret.result.headers :
                 ret.result.headers[k] = upstream.headers[k]
           /\ ret.result.status_code = upstream.status
           /\ ret.result.content = upstream.content

C15_Witness ==
    /\ ret.op = "proxy_response" /\ ret.result.outcome.kind = "response"
    /\ DOMAIN ret.result.outcome.headers = {"Content-Encoding", "Content-Type"}
    /\ DOMAIN ret.result.headers = {"Content-Type"}
    /\ ret.result.content = "body"

\* ------------------------------------------------ properties: probe task queue
\* a get_task call that is suspended in wait_for
Blocked(c) == c \in Range(tq_waiters)

\* C16: the queue holds at most one pending entry per URL: size is the number
\* of distinct URLs that were added and not yet returned, the set holds
\* exactly those, and add_task(u) while u is pending changes nothing (neither
\* the set nor any suspended get_task).
C16_OnePendingEntryPerUrl ==
    [][ /\ size' = Cardinality(Range(tq_order'))
        /\ tq_set' = Range(tq_order')
        /\ (ret'.op = "add_task" /\ ret'.arg \in Range(tq_order)) =>
              UNCHANGED <<tq_set, tq_waiters, tq_woken>> ]_vars

C16_Witness ==
    /\ ret.op = "add_task" /\ ret.arg \in tq_set
    /\ size = 1
    /\ \E c \in Consumers : Blocked(c) /\ c \notin tq_woken
    /\ \E c \in Consumers : c \in tq_woken

\* C17 (as claimed): get_task returns the pending URLs in the order in which
\* they were added: it returns the one that was added first.
C17_GetTaskIsFifo ==
    [][ ret'.op = "get_task" => ret'.result = Head(tq_order) ]_vars

\* C18: get_task returns only a URL that is pending, and removes it; a
\* get_task suspended on an empty queue is woken by a later add_task: while a
\* URL is pending and a get_task is suspended, some suspended get_task has
\* been woken, and that get_task returns or the queue is emptied by others.
C18_NoLostWakeup ==
    /\ [][ ret'.op = "get_task" =>
              /\ ret'.result \in tq_set
              /\ tq_set' = tq_set \ {ret'.result}
              /\ ret'.arg \notin Range(tq_waiters') ]_vars
    /\ [](\A c \in Consumers :
             (Blocked(c) /\ tq_set # {}) => tq_woken # {})
    /\ \A c \in Consumers :
          (Blocked(c) /\ tq_set # {}) ~> (~Blocked(c) \/ tq_set = {})

C18_Witness ==
    /\ ret.op = "get_task"
    /\ ret.arg \in Consumers
    /\ tq_set # {}
    /\ \E c \in Consumers : Blocked(c) /\ c \in tq_woken
    /\ \E c \in Consumers : Blocked(c) /\ c \notin tq_woken

\* ------------------------------------------- properties: Prequal balancer
\* C19 (as claimed): get_next_backend returns none when the registry has no
\* healthy backend at the time of the call, and otherwise the URL of a backend
\* that the registry holds as registered and healthy at the time of the call.
C19_ReturnsHealthyAtTimeOfCall ==
    ret.op = "get_next_backend" =>
        IF ret.result.at_call = {} THEN ret.result.url = None
        ELSE ret.result.url \in ret.result.at_call

\* C19 (amended): get_next_backend returns none when the registry had no
\* healthy backend at the balancer's last read of it (the call's own read, or
\* the read of an earlier call that is no more than _cache_timeout old), and
\* otherwise the URL of a backend that was registered and healthy at that read.
C19_ReturnsHealthyAtLastRead ==
    ret.op = "get_next_backend" =>
        IF lb_read = {} THEN ret.result.url = None
        ELSE ret.result.url \in lb_read

C19_Witness ==
    /\ ret.op = "get_next_backend"
    /\ ret.result.url \in lb_read
    /\ ret.result.url \notin ret.result.at_call
    /\ ret.result.at_call # {}

\* what the chooser calls cold: no RIF sample, or the last one below the median
chooser_cold(url) ==
    LET rifs == get_rif_values(url)
    IN rifs = <<>> \/ 2 * rifs[Len(rifs)] < median2(rifs)

\* the current latency of url, +infinity only when it has no sample
latency_or_inf(url) ==
    IF get_current_latency(url) = {} THEN inf
    ELSE CHOOSE l \in get_current_latency(url) : TRUE

\* C20: when at least one healthy backend is cold, get_next_backend returns a
\* cold backend whose current latency is minimal among the cold ones, a
\* latency of 0 included; only a backend without samples counts as +infinity.
C20_ColdPickHasMinimalLatency ==
    ret.op = "get_next_backend" =>
        LET cold == {u \in ret.result.healthy : chooser_cold(u)}
        IN cold # {} =>
              /\ ret.result.url \in cold
              /\ \A v \in cold :
                    ~Lt(latency_or_inf(v), latency_or_inf(ret.result.url))

\* the most recent RIF of a backend that has samples
last_rif(url) == get_rif_values(url)[Len(get_rif_values(url))]

\* C21: when no healthy backend is cold, get_next_backend returns a hot
\* backend whose most recent RIF is minimal among the hot ones, a RIF of 0
\* included.
C21_HotPickHasMinimalRif ==
    ret.op = "get_next_backend" =>
        LET cold == {u \in ret.result.healthy : chooser_cold(u)}
            hot == ret.result.healthy \ cold
        IN (cold = {} /\ hot # {}) =>
              /\ ret.result.url \in hot
              /\ \A v \in hot : last_rif(v) >= last_rif(ret.result.url)

\* the temperature the pool reports for url, as the set of the values a reader
\* gets (none stands for None)
reported_temperature(url) ==
    IF url \in DOMAIN pool_probes
    THEN {pool_probes[url].temperature} ELSE {}

\* the partition _classify_backends has just made (the call goes on to fetch
\* latencies, or has returned without another step), as <<healthy, cold, hot>>
classified ==
    IF ret.op = "get_next_backend.classified"
    THEN {<<lb_call.healthy, lb_call.cold, lb_call.hot>>}
    ELSE IF ret.op = "get_next_backend" /\ ret.result.step = "classify"
    THEN {<<ret.result.healthy, ret.result.cold, ret.result.hot>>}
    ELSE {}

\* the chooser's partition of the healthy backends agrees with the rule
ChooserPartitionByRule ==
    \A p \in classified :
        /\ p[2] = {u \in p[1] : chooser_cold(u)}
        /\ p[3] = {u \in p[1] : ~chooser_cold(u)}

\* C22: a backend is cold if and only if it has no probe samples or its most
\* recent RIF is strictly less than the median of its RIF window (equal to the
\* median is hot), both in the temperature the probe pool reports and in the
\* chooser's hot/cold partition.
C22_ColdIffBelowMedian ==
    /\ \A u \in URLS :
          \A t \in reported_temperature(u) : (t = "cold") <=> chooser_cold(u)
    /\ ChooserPartitionByRule

\* -------------------------------------------------- properties: probe pool
\* C23: the probe pool never tracks more than 16 URLs; a probe for a new URL
\* when 16 are tracked evicts the URL inserted first, however recently it was
\* probed, and no other; any other probe evicts nothing.
C23_FifoEvictionAtCapacity ==
    [][ ret'.op = "add_probe" =>
          LET known == ret'.arg \in DOMAIN pool_probes
              tracked == DOMAIN pool_probes
          IN /\ Cardinality(DOMAIN pool_probes') <= 16
             /\ Range(pool_keys') = DOMAIN pool_probes'
             /\ IF ~known /\ Cardinality(tracked) = 16
                THEN /\ DOMAIN pool_probes' =
                           (tracked \ {pool_keys[1]}) \cup {ret'.arg}
                     /\ pool_keys' = Append(Tail(pool_keys), ret'.arg)
                ELSE /\ DOMAIN pool_probes' = tracked \cup {ret'.arg}
                     /\ pool_keys' = IF known THEN pool_keys
                                     ELSE Append(pool_keys, ret'.arg) ]_vars

\* the first URL inserted has been probed again, and later evicted by the
\* probe of a 17th
C23_Witness ==
    /\ ret.op = "add_probe"
    /\ ret.arg = 17
    /\ Cardinality(DOMAIN pool_probes) = 16
    /\ 1 \notin DOMAIN pool_probes
    /\ pool_keys[1] = 2
    /\ Len(pool_probes[2].latencies) = MaxSamples

\* --------------------------------------------- properties: probe scheduler
\* C24: on each turn of the scheduler, every healthy URL whose last scheduled
\* probe is at least min_probe_interval old, or that has never been scheduled,
\* gets an add_task task in that turn, whatever the draw; the task adds the
\* URL to the probe task queue, and it has run before the next turn.
C24_ForcedWhenDue ==
    /\ [][ ret'.op = "schedule_probe_tasks" =>
             /\ created_tasks = <<>>
             /\ \A u \in URLS :
                   ( /\ u \in DOMAIN backends' /\ backends'[u].health
                     /\ \/ u \notin DOMAIN last_probe_time
                        \/ time - last_probe_time[u] >= min_probe_interval )
                   => u \in Range(created_tasks') ]_vars
    /\ [][ created_tasks' # created_tasks /\ ret'.op # "schedule_probe_tasks" =>
             /\ created_tasks' = Tail(created_tasks)
             /\ Head(created_tasks) \in tq_set' ]_vars

\* a URL scheduled two ticks before is forced in a turn whose draw names none
C24_Witness ==
    /\ ret.op = "schedule_probe_tasks"
    /\ ret.result.drawn = {}
    /\ \E u \in DOMAIN ret.pre :
          /\ time - ret.pre[u] = min_probe_interval
          /\ u \in ret.result.healthy
          /\ u \in Range(created_tasks)

C30_OneOutstandingProbePerUrl ==
    \A u \in URLS :
       Cardinality({w \in Probes : probing[w] = u})
          + (IF u \in tq_set THEN 1 ELSE 0) <= 1

C29_ReaderSeesOneSnapshot ==
    ret.op = "get_backend_data_batch" =>
        \A i \in DOMAIN ret.arg :
            LET u == ret.arg[i]
                rif_values == pool_probes[u].rif_values
                rule == IF 2 * rif_values[Len(rif_values)] > median2(rif_values)
                        THEN "hot" ELSE "cold"
            IN \A l \in ret.result.latencies[i] :
                  Eq(l, mean(pool_probes[u].latencies)) =>
                     ret.result.temperatures[i] = {rule}

\* a read between two add_probe calls and after the second, whose sample
\* changed the temperature
C29_Witness ==
    /\ ret.op = "get_backend_data_batch"
    /\ \E i \in DOMAIN ret.arg :
          /\ ret.arg[i] \in DOMAIN pool_probes
          /\ pool_probes[ret.arg[i]].rif_values = <<0, 1>>
          /\ ret.result.temperatures[i] = {"hot"}
          /\ ret.result.latencies[i] # {}

\* C34: the forwarder's and the probe manager's failure counters of a URL are
\* independent: a forward changes no probe-side counter and a probe no
\* forwarder-side counter; a failed probe adds one to the probe-side counter
\* and a failed forward one to the forwarder-side counter; each side marks
\* the backend unhealthy exactly when its own counter reaches the threshold,
\* and the record marked is the registry's record of that URL.
C34_CountersIndependent ==
    [][ LET u == ret'.arg
            fwd_side == ret'.op \in {"handle_proxy", "proxy_response"}
            probe_side == ret'.op \in {"send_probe", "probe_response"}
        IN /\ fwd_side => pm_failures' = pm_failures
           /\ probe_side => ph_failures' = ph_failures
           /\ ret'.op = "proxy_response" =>
                 LET failed == proxy_failed(ret'.result.outcome)
                     own == Get(ph_failures, u, 0) + 1
                 IN /\ failed => Get(ph_failures', u, 0) = own
                    /\ ret'.result.marked
                          <=> (failed /\ own >= consecutive_failure_threshold)
                    /\ (ret'.result.marked /\ u \in DOMAIN backends)
                          => ~backends'[u].health
           /\ ret'.op = "probe_response" =>
                 LET failed == ret'.result.outcome # "ok"
                     own == Get(pm_failures, u, 0) + 1
                 IN /\ failed => Get(pm_failures', u, 0) = own
                    /\ ret'.result.marked
                          <=> (failed /\ own >= consecutive_failure_threshold)
                    /\ (ret'.result.marked /\ u \in DOMAIN backends)
                          => ~backends'[u].health ]_vars

\* two failed forwards and two failed probes of a healthy backend: four
\* failures in all, and the backend has not been marked
C34_Witness ==
    /\ ret.op = "probe_response"
    /\ ret.result.outcome # "ok"
    /\ ~ret.result.marked
    /\ \E u \in DOMAIN backends :
          /\ ret.arg = u
          /\ backends[u].health
          /\ Get(ph_failures, u, 0) = 2
          /\ Get(pm_failures, u, 0) = 2

\* C31 (as claimed): the draw picks only from healthy - probe_history;
\* between two clearings of the history no URL is picked twice; the history
\* is cleared only on a turn where every healthy URL is in it; after every
\* turn probe_history is a subset of that turn's healthy set.
C31_NoRepeatBetweenResets ==
    ret.op = "schedule_probe_tasks" =>
        /\ ret.result.drawn \subseteq
              ret.result.healthy
                 \ (IF ret.result.cleared THEN {} ELSE ret.result.kept)
        /\ ret.result.drawn \cap DOMAIN ret.result.picked = {}
        /\ ret.result.cleared => ret.result.healthy \subseteq ret.result.kept
        /\ probe_history \subseteq ret.result.healthy

\* C31 (amended): as claimed, except that a URL picked since the history was
\* last cleared is picked again only if it was not healthy on some turn in
\* between (that turn dropped it from the history).
C31_NoRepeatWhileHealthy ==
    ret.op = "schedule_probe_tasks" =>
        /\ ret.result.drawn \subseteq
              ret.result.healthy
                 \ (IF ret.result.cleared THEN {} ELSE ret.result.kept)
        /\ \A u \in ret.result.drawn \cap DOMAIN ret.result.picked :
              ~ret.result.picked[u]
        /\ ret.result.cleared => ret.result.healthy \subseteq ret.result.kept
        /\ probe_history \subseteq ret.result.healthy

\* a URL picked before, unhealthy on a turn since and healthy again, is picked
\* again although the history has not been cleared in between
C31_Witness ==
    /\ ret.op = "schedule_probe_tasks"
    /\ ~ret.result.cleared
    /\ \E u \in ret.result.drawn :
          /\ u \in DOMAIN ret.result.picked
          /\ ~ret.result.picked[u]
          /\ u \notin ret.result.kept
    /\ probe_history \subseteq ret.result.healthy

\* C32: after stop() has been called on a ProbeManager, its run() loop
\* eventually terminates, also when the probe task queue is empty at that
\* moment and nothing is added to it afterwards.
C32_RunTerminatesAfterStop ==
    \A w \in Probes :
        (stopped /\ ~pm_running /\ run_state[w] = "looping")
            ~> (run_state[w] = "returned")

\* C33: the probe scheduler loop exits once stop has been signaled: after
\* the stop signal it eventually creates no further add_task task.
C33_SchedulerExitsAfterStop ==
    stopped ~> [](created_tasks = <<>>)

\* C35: register(u) and unregister(u) calls that run concurrently take effect
\* one after the other: the backend map and the heartbeat map have the same
\* keys in every state; when the last of the calls for u was a register, u is
\* in both maps with every field of the record of a register call (its health
\* possibly cleared since) and a heartbeat time no later than now; when it
\* was an unregister, u is in neither map. Right after a register the record
\* is the whole record of that call and the heartbeat time is now.
C35_RegisterUnregisterAtomic ==
    /\ DOMAIN backends = DOMAIN last_heartbeat
    /\ \A u \in URLS :
          /\ last_call[u] = "register" =>
                /\ u \in DOMAIN backends
                /\ u \in DOMAIN last_heartbeat
                /\ last_heartbeat[u] \in 0..now
                /\ \E p \in Payloads :
                      /\ p.url = u
                      /\ backends[u].health => p.health
                      /\ [backends[u] EXCEPT !.health = p.health] = Backend(p)
          /\ last_call[u] = "unregister" =>
                /\ u \notin DOMAIN backends
                /\ u \notin DOMAIN last_heartbeat
    /\ ret.op = "register" =>
          /\ backends[ret.arg.url] = Backend(ret.arg)
          /\ last_heartbeat[ret.arg.url] = now
    /\ ret.op = "unregister" =>
          /\ ret.arg.url \notin DOMAIN backends
          /\ ret.arg.url \notin DOMAIN last_heartbeat

\* a register of u that found no record, among unregister calls for the
\* other URL and after the clock has advanced
C35_Witness ==
    /\ ret.op = "register"
    /\ ret.pre = {}
    /\ ret.arg.in_flight_requests = 1
    /\ \E v \in URLS \ {ret.arg.url} : last_call[v] = "unregister"
    /\ now > 0

\* C36: in the Redis-backed registry a backend that has stopped sending
\* heartbeats eventually stops being returned by list_backends (its record
\* ages out with its TTL), whatever list_backends, is_backend_healthy and
\* mark_backend_unhealthy calls are made in the meantime.
C36_SilentBackendAgesOut ==
    \A u \in URLS :
        <>[](/\ ~redis_exists(backend_key(u))
             /\ ret.op = "redis.list_backends" =>
                   \A r \in ret.result : r.url # u)

\* C37: mark_backend_unhealthy(u) changes nothing but u's health flag: the
\* registered URLs, the record of every other backend, the other fields of
\* u's record and every heartbeat time (u's too) are the same before and
\* after the call; a call for a URL that is absent or already unhealthy, so
\* also a second call right after a first, changes nothing at all.
C37_MarkChangesOnlyTheFlag ==
    [][ ret'.op = "mark_backend_unhealthy" =>
          LET u == ret'.arg IN
          /\ DOMAIN backends' = DOMAIN backends
          /\ \A v \in DOMAIN backends :
                /\ v # u => backends'[v] = backends[v]
                /\ v = u => /\ ~backends'[v].health
                            /\ [backends'[v] EXCEPT !.health = backends[v].health]
                                  = backends[v]
          /\ last_heartbeat' = last_heartbeat
          /\ last_call' = last_call
          /\ now' = now
          /\ (u \notin DOMAIN backends \/ ~backends[u].health) =>
                backends' = backends
          /\ (ret.op = "mark_backend_unhealthy" /\ ret.arg = u) =>
                backends' = backends ]_vars

\* a healthy backend with non-default metrics has been marked while the
\* other backend is registered and healthy, after the clock has advanced
C37_Witness ==
    /\ ret.op = "mark_backend_unhealthy"
    /\ \E b \in ret.pre : b.health /\ b.in_flight_requests = 1
    /\ ~backends[ret.arg].health
    /\ backends[ret.arg].in_flight_requests = 1
    /\ \E v \in DOMAIN backends \ {ret.arg} : backends[v].health
    /\ now > last_heartbeat[ret.arg]

\* a step sends a probe to u: a worker has taken u from the queue
ProbeSentTo(u) ==
    \E w \in Probes : probing[w] # u /\ probing'[w] = u

\* a step takes the health of u from false to true
Restored(u) ==
    /\ u \in DOMAIN backends /\ ~backends[u].health
    /\ u \in DOMAIN backends' /\ backends'[u].health

\* C38 (as claimed): in the in-memory registry a backend's health goes from
\* false to true only through a register call carrying health=true (not
\* through list_backends, is_backend_healthy, mark_backend_unhealthy, a
\* successful probe or a successful forward), and an unhealthy backend
\* receives no probe until a heartbeat restores it.
C38_OnlyHeartbeatRestoresAndNoProbeMeanwhile ==
    [][ \A u \in URLS :
          /\ Restored(u) =>
                /\ ret'.op = "register"
                /\ ret'.arg.url = u
                /\ ret'.arg.health
          /\ (ProbeSentTo(u) /\ u \in DOMAIN backends) =>
                backends[u].health ]_vars

\* C38 (amended): health is restored only by a register carrying
\* health=true, and the scheduler creates probe tasks only for backends that
\* are healthy at its turn; only those tasks put a URL into the queue and a
\* probe is sent only to a URL taken from the queue, so that every probe an
\* unhealthy backend receives comes from a task created while it was healthy.
C38_OnlyHeartbeatRestoresAndNoNewTask ==
    [][ \A u \in URLS :
          /\ Restored(u) =>
                /\ ret'.op = "register"
                /\ ret'.arg.url = u
                /\ ret'.arg.health
          /\ (ret'.op = "schedule_probe_tasks"
                 /\ u \in Range(created_tasks')) =>
                (u \in DOMAIN backends' /\ backends'[u].health)
          /\ (u \in Range(created_tasks') /\ u \notin Range(created_tasks)) =>
                ret'.op = "schedule_probe_tasks"
          /\ (u \in tq_set' /\ u \notin tq_set) =>
                (created_tasks # <<>> /\ u = Head(created_tasks))
          /\ ProbeSentTo(u) => u \in tq_set ]_vars

\* a worker takes from the queue, and sends a probe to, a backend that its
\* own third failed probe in a row has marked unhealthy: the scheduler had
\* enqueued the backend again while it was healthy
C38_Witness ==
    /\ ret.op = "get_task"
    /\ \E w \in Probes :
          /\ probing[w] \in DOMAIN backends
          /\ ~backends[probing[w]].health
          /\ ret.result = probing[w]
          /\ probe_streak[probing[w]] >= consecutive_failure_threshold

\* C39: neither failure counter is cleared by a register (a heartbeat that
\* restores the backend included) or by a request the gate rejects: a counter
\* that has reached the threshold falls below it only through a successful
\* forward (forwarder side) or a successful probe (probe side) of that URL,
\* so that a forward or probe of the URL that fails while its counter is at
\* or above the threshold calls mark_backend_unhealthy again, also right
\* after a heartbeat has restored the backend.
C39_CountersSurviveRestore ==
    [][ LET u == ret'.arg
            thr == consecutive_failure_threshold
        IN /\ ret'.op \in {"register", "unregister", "handle_proxy",
                            "is_backend_healthy", "send_probe"} =>
                 /\ ph_failures' = ph_failures
                 /\ pm_failures' = pm_failures
           /\ \A v \in URLS :
                 /\ (Get(ph_failures, v, 0) >= thr
                       /\ Get(ph_failures', v, 0) < thr) =>
                       /\ ret'.op = "proxy_response" /\ u = v
                       /\ ret'.result.outcome.kind = "response"
                       /\ ret'.result.outcome.status < 500
                 /\ (Get(pm_failures, v, 0) >= thr
                       /\ Get(pm_failures', v, 0) < thr) =>
                       /\ ret'.op = "probe_response" /\ u = v
                       /\ ret'.result.outcome = "ok"
           /\ (ret'.op = "proxy_response"
                 /\ Get(ph_failures, u, 0) >= thr
                 /\ ~(ret'.result.outcome.kind = "response"
                        /\ ret'.result.outcome.status < 500)) =>
                 /\ ret'.result.marked
                 /\ u \in DOMAIN backends => ~backends'[u].health
           /\ (ret'.op = "probe_response"
                 /\ Get(pm_failures, u, 0) >= thr
                 /\ ret'.result.outcome # "ok") =>
                 /\ ret'.result.marked
                 /\ u \in DOMAIN backends => ~backends'[u].health ]_vars

\* the forwarder's counter had reached the threshold, a heartbeat restored
\* the backend, and the next forward failed: the backend, healthy before the
\* response, is marked unhealthy again on a count above the threshold
C39_Witness ==
    /\ ret.op = "proxy_response"
    /\ ret.result.marked
    /\ \E b \in ret.pre : b.health
    /\ ret.arg \in DOMAIN backends
    /\ ~backends[ret.arg].health
    /\ Get(ph_failures, ret.arg, 0) = consecutive_failure_threshold + 1

\* C40: when the forwards to a URL that were in flight together have all
\* completed and all of them failed, the URL's failure counter has grown by
\* exactly their number (no update is lost), and mark_backend_unhealthy has
\* been called by one of them exactly when the counter has reached the
\* threshold.
C40_NoLostUpdate ==
    \A u \in URLS :
        LET b == fwd_batch[u] IN
        (in_flight(u) = {} /\ b.size > 0 /\ ~b.ok) =>
            /\ Get(ph_failures, u, 0) = b.start + b.size
            /\ b.marked <=>
                  Get(ph_failures, u, 0) >= consecutive_failure_threshold

\* two forwards that were in flight together have both failed, taking the
\* counter from one to the threshold
C40_Witness ==
    /\ ret.op = "proxy_response"
    /\ in_flight(ret.arg) = {}
    /\ fwd_batch[ret.arg] = [start |-> 1, size |-> 2, ok |-> FALSE,
                             marked |-> TRUE]
    /\ ph_failures[ret.arg] = consecutive_failure_threshold

\* ------------------------------------------- properties: metrics manager
\* C26: the in-flight value always equals the number of requests that have
\* entered prometheus_middleware and not yet left it, also after a handler
\* has raised: it is never negative, it is 0 when no request is in progress,
\* and get_in_flight returns that number.
C26_InFlightCountsRequestsInProgress ==
    /\ IN_FLIGHT = Cardinality({r \in MwRequests : mw_calls[r] # {}})
    /\ IN_FLIGHT >= 0
    /\ (\A r \in MwRequests : mw_calls[r] = {}) => IN_FLIGHT = 0
    /\ ret.op = "get_in_flight" =>
          ret.result = Cardinality({r \in MwRequests : mw_calls[r] # {}})

\* of two concurrent requests one has left through a raising handler
C26_Witness ==
    /\ ret.op = "prometheus_middleware.finally"
    /\ ret.result = "raises"
    /\ IN_FLIGHT = 1
    /\ \E r \in MwRequests : mw_calls[r] = {2}

\* ---------------------------------------------- properties: round robin
\* C27: the round-robin balancer returns none when no backend is healthy and
\* otherwise a healthy backend; when the healthy backends are the same as at
\* the call before, it returns the one that follows, in sorted order and
\* cyclically, the one returned by the call before, so that n consecutive
\* calls over n unchanging healthy backends return each exactly once.
C27_RoundRobinCycles ==
    ret.op = "round_robin.get_next_backend" =>
        LET sorted == ret.result.backends
            n == Len(sorted)
        IN /\ sorted = SelectSeq(SortedUrls,
                                 LAMBDA u : /\ u \in DOMAIN backends
                                            /\ backends[u].health)
           /\ n = 0 => ret.result.url = None
           /\ n > 0 => ret.result.url \in Range(sorted)
           /\ (n > 0 /\ ret.pre.backends = sorted) =>
                 \E i \in 1..n : /\ ret.pre.url = sorted[i]
                                  /\ ret.result.url = sorted[(i % n) + 1]

\* the last of two healthy backends was returned before, the first is now
C27_Witness ==
    /\ ret.op = "round_robin.get_next_backend"
    /\ ret.result.backends = SortedUrls
    /\ ret.pre.backends = SortedUrls
    /\ ret.pre.url = "http://c"
    /\ ret.result.url = "http://a"

\* ------------------------------------------------ properties: both registries
\* C9 (as claimed): mark_backend_unhealthy(u) returns true exactly when u is in
\* the registry (healthy or already unhealthy), and afterwards u, if present,
\* has health=false; in the in-memory registry and in the Redis-backed one.
C9_MarkReturnsWhetherKnown ==
    /\ ret.op = "mark_backend_unhealthy" =>
          /\ Truthy(ret.result) <=> ret.pre # {}
          /\ \A b \in Stored(ret.arg) : ~b.health
    /\ ret.op = "redis.mark_backend_unhealthy" =>
          /\ Truthy(ret.result) <=> ret.pre # {}
          /\ \A b \in RedisStored(ret.arg) : ~b.health

====
